---- MODULE Spec2Model ----
(***************************************************************************)
(* Model of the review-finding aggregation engine of the PR review loop    *)
(* (codex/skills/pr-review-loop/scripts/pr_review_aggregate.py) and of the *)
(* scripts around it (@opencode/agents: pr_review_aggregate.py,            *)
(* pr_precheck.py, gh_review_harvest.py).  Each part has its own           *)
(* specification; the variables a part does not use keep their initial     *)
(* value.                                                                  *)
(*                                                                         *)
(* Strings of the program are TLA+ strings.  A description, which the      *)
(* program builds by concatenation, is a sequence of text pieces; the      *)
(* empty Python string is the empty sequence.  Python's ordering of id     *)
(* strings is given by IdOrder, which lists the sample ids in ascending    *)
(* code-point order.                                                       *)
(***************************************************************************)
EXTENDS Naturals, Sequences, FiniteSets, TLC

VARIABLES
    findings,            \* all_findings / the findings argument
    duplicate_groups,    \* duplicate groups as returned by the group resolver
    prior_decisions,     \* records returned by _parse_decision_log
    escalation_groups,   \* escalation groups as returned by the group resolver
    merged_findings,     \* first value returned by _merge_duplicates
    merged_map,          \* second value returned by _merge_duplicates
    seen,                \* the absorbed ids of _merge_duplicates
    remerged_findings,   \* _merge_duplicates applied to its own output
    remerged_map,
    filtered,            \* value returned by _filter_by_decision_log
    args,                \* the command line and the files it names
    comments,            \* the comments of the pull request, oldest first
    comment_type,        \* the kind of comment the run posts
    listing,             \* outcome of the comment listing of the run
    duplicate,           \* value returned by _check_existing_comment
    posted,              \* value returned by _post_pr_comment
    post_calls,          \* runs of `gh pr comment` in this invocation
    must_fix,            \* the mandatory tier
    optional,            \* the optional tier
    runs,                \* invocations so far
    stdout,              \* the JSON objects written to stdout
    exit_code,           \* "none" while the script runs
    cache_files,         \* the cache artifacts written by this invocation
    owner_repo,          \* gh_review_harvest: the repository resolved
    all_threads,         \* gh_review_harvest: the pages of review threads fetched
    raw_reviews,         \* the review files read: <<name, content>>
    fix_report_md,       \* the text of the fix-report file
    body,                \* the comment body rendered
    results,             \* pr_precheck: exit codes stored by the workers
    threads,             \* pr_precheck: state of the two worker threads
    issues,              \* pr_precheck: the issues written to the fix file
    md_text,             \* the lines of a review file
    parsed,              \* value returned by _parse_review_findings
    counts,              \* value returned by _counts
    fix_file,            \* the blocks of the fix file written by main
    log_text,            \* the lines of a decision log
    log_pos,             \* lines of the decision log read so far
    current_status,      \* _parse_decision_log: the status section in force
    current_entry,       \* _parse_decision_log: the record in progress
    decisions,           \* _parse_decision_log: the records closed so far
    payload,             \* the text given to a group resolver
    resolved,            \* what the group resolver did with it
    pc                   \* position in the run

reviewVars == <<findings, duplicate_groups, prior_decisions, escalation_groups,
                merged_findings, merged_map, seen, remerged_findings,
                remerged_map, filtered>>

mainVars == <<args, comments, comment_type, listing, duplicate, posted,
              post_calls, must_fix, optional, runs>>

outVars == <<stdout, exit_code, cache_files>>

harvestVars == <<owner_repo, all_threads>>

textVars == <<raw_reviews, fix_report_md, body>>

precheckVars == <<results, threads, issues>>

parseVars == <<md_text, parsed>>

fixVars == <<counts, fix_file>>

logVars == <<log_text, log_pos, current_status, current_entry, decisions>>

resolverVars == <<payload, resolved>>

vars == <<reviewVars, mainVars, outVars, harvestVars, textVars, precheckVars,
          parseVars, fixVars, logVars, resolverVars, pc>>

\* what the merge and the filter called alone leave untouched
frameReview == <<mainVars, outVars, harvestVars, textVars, precheckVars, parseVars,
                 fixVars, logVars, resolverVars>>

\* what the aggregate script leaves untouched
frameMain == <<harvestVars, textVars, precheckVars, parseVars, logVars,
               resolverVars>>

\* what the review harvester leaves untouched
frameHarvest == <<textVars, precheckVars, parseVars, fixVars, logVars,
                  resolverVars>>

\* what the renderers, the precheck and the finding parsers leave untouched
\* besides the variables each of them names
frameOther == <<fixVars, logVars, resolverVars>>

----------------------------------------------------------------------------
(* Bounds of the model *)

MaxFindings == 3

MaxFilterFindings == 2

MaxGroups == 2

MaxDupGroups == 2

MaxDecisions == 2

----------------------------------------------------------------------------
(* Sample data *)

\* reviewer-assigned ids, in ascending order of Python string comparison
IdOrder == <<"CLD-007", "GMN-004", "SEC-010">>

Ids == {IdOrder[i] : i \in 1..Len(IdOrder)}

IdIndex(s) == CHOOSE i \in 1..Len(IdOrder) : IdOrder[i] = s

\* Python: a < b on two id strings
StrLess(a, b) == IdIndex(a) < IdIndex(b)

Range(s) == {s[i] : i \in 1..Len(s)}

BoundedSeq(S, n) == UNION {[1..k -> S] : k \in 0..n}

\* a Finding as normalized by _parse_review_findings
Finding(fid, pri, desc) ==
    [id |-> fid, priority |-> pri, category |-> "quality", file |-> "<unknown>",
     line |-> "null", title |-> "t", description |-> desc,
     suggestion |-> "(no suggestion provided)"]

\* a group as returned by the group resolvers: trimmed ids, no id twice,
\* at least two ids
IsGroup(g) == /\ Len(g) >= 2
              /\ \A i, j \in 1..Len(g) : i # j => g[i] # g[j]

Groups == {g \in BoundedSeq(Ids, Cardinality(Ids)) : IsGroup(g)}

----------------------------------------------------------------------------
(* _filter_by_decision_log *)

\* escalation_map: first element of a group -> the ids listed after it
EscalationMap(groups) ==
    [k \in {groups[i][1] : i \in {j \in 1..Len(groups) : Len(groups[j]) >= 2}} |->
        UNION {Range(Tail(groups[i])) :
                 i \in {j \in 1..Len(groups) : Len(groups[j]) >= 2 /\ groups[j][1] = k}}]

FixedIds(decs) ==
    {decs[i].id : i \in {j \in 1..Len(decs) : decs[j].id # "" /\ decs[j].status = "fixed"}}

RejectedIds(decs) ==
    {decs[i].id : i \in {j \in 1..Len(decs) : decs[j].id # "" /\ decs[j].status = "rejected"}}

\* mutant: the finding's own id is not looked up in fixed_ids
ShouldFilterLinkOnly(fid, fixed_ids, rejected_ids, escalation_map) ==
    LET byFixedLink == \E fixed_id \in fixed_ids :
                          fixed_id \in DOMAIN escalation_map /\ fid \in escalation_map[fixed_id]
        byRejectedLink == \E rejected_id \in rejected_ids :
                          rejected_id \in DOMAIN escalation_map /\ fid \in escalation_map[rejected_id]
    IN  IF byFixedLink THEN TRUE
        ELSE IF byRejectedLink THEN FALSE
        ELSE fid \in rejected_ids

\* mutant: the successors of fixed ids are not looked up
ShouldFilterNoFixedLink(fid, fixed_ids, rejected_ids, escalation_map) ==
    LET byRejectedLink == \E rejected_id \in rejected_ids :
                          rejected_id \in DOMAIN escalation_map /\ fid \in escalation_map[rejected_id]
    IN  IF fid \in fixed_ids THEN TRUE
        ELSE IF byRejectedLink THEN FALSE
        ELSE fid \in rejected_ids

\* mutant: an escalation does not override a rejection
ShouldFilterNoOverride(fid, fixed_ids, rejected_ids, escalation_map) ==
    LET byFixedLink == \E fixed_id \in fixed_ids :
                          fixed_id \in DOMAIN escalation_map /\ fid \in escalation_map[fixed_id]
    IN  fid \in fixed_ids \/ byFixedLink \/ fid \in rejected_ids

\* mutant: the scan of the rejected ids runs before the scan of the fixed ids
ShouldFilterRejectedFirst(fid, fixed_ids, rejected_ids, escalation_map) ==
    LET byFixedLink == \E fixed_id \in fixed_ids :
                          fixed_id \in DOMAIN escalation_map /\ fid \in escalation_map[fixed_id]
        byRejectedLink == \E rejected_id \in rejected_ids :
                          rejected_id \in DOMAIN escalation_map /\ fid \in escalation_map[rejected_id]
    IN  IF fid \in fixed_ids THEN TRUE
        ELSE IF byRejectedLink THEN FALSE
        ELSE byFixedLink \/ fid \in rejected_ids

\* mutant: the first scan runs over every key of escalation_map
ShouldFilterAnyLink(fid, fixed_ids, rejected_ids, escalation_map) ==
    LET byAnyLink == \E k \in DOMAIN escalation_map : fid \in escalation_map[k]
    IN  IF fid \in fixed_ids THEN TRUE
        ELSE IF byAnyLink THEN TRUE
        ELSE fid \in rejected_ids

\* the value of should_filter at the end of one iteration of the loop over findings
ShouldFilter(fid, fixed_ids, rejected_ids, escalation_map) ==
    LET byFixedId == fid \in fixed_ids
        byFixedLink == \E fixed_id \in fixed_ids :
                          fixed_id \in DOMAIN escalation_map /\ fid \in escalation_map[fixed_id]
        byRejectedLink == \E rejected_id \in rejected_ids :
                          rejected_id \in DOMAIN escalation_map /\ fid \in escalation_map[rejected_id]
    IN  IF byFixedId THEN TRUE
        ELSE IF byFixedLink THEN TRUE
        ELSE IF byRejectedLink THEN FALSE
        ELSE fid \in rejected_ids

\* mutant: without prior decisions nothing is returned
FilterByDecisionLogNoneOnEmpty(fs, decs, groups) ==
    IF decs = <<>> THEN <<>>
    ELSE LET escalation_map == EscalationMap(groups)
             fixed_ids == FixedIds(decs)
             rejected_ids == RejectedIds(decs)
             Keep(f) == /\ f.id # ""
                        /\ ~ShouldFilter(f.id, fixed_ids, rejected_ids, escalation_map)
         IN  SelectSeq(fs, Keep)

FilterByDecisionLog(fs, decs, groups) ==
    IF decs = <<>> THEN fs
    ELSE LET escalation_map == EscalationMap(groups)
             fixed_ids == FixedIds(decs)
             rejected_ids == RejectedIds(decs)
             Keep(f) == /\ f.id # ""
                        /\ ~ShouldFilter(f.id, fixed_ids, rejected_ids, escalation_map)
         IN  SelectSeq(fs, Keep)

----------------------------------------------------------------------------
(* Specification of the decision-log filter *)

FilterSample == {Finding(i, "P1", <<"d">>) : i \in Ids}

\* ids of prior decisions: the filter compares ids for equality only, so two
\* prior ids and one id that no decision names cover its cases
PriorIds == {"CLD-007", "GMN-004"}

\* decision records as _parse_decision_log returns them; a "- id:" line without
\* a value gives a record with an empty id
DecisionSample ==
    [id : PriorIds, status : {"fixed", "rejected"}] \cup {[id |-> "", status |-> "fixed"]}

\* escalation groups: a prior id followed by the ids linked to it
EscalationSample ==
    {<<"CLD-007", "GMN-004", "SEC-010">>, <<"CLD-007", "SEC-010">>,
     <<"GMN-004", "CLD-007">>, <<"GMN-004", "SEC-010">>}

\* no comment is rendered, no precheck runs, no review file is parsed
NoText == raw_reviews = <<>> /\ fix_report_md = <<>> /\ body = <<>>

NoPrecheck == results = <<>> /\ threads = <<>> /\ issues = <<>>

NoParse == md_text = <<>> /\ parsed = <<>>

NoCounts == [P0 |-> 0, P1 |-> 0, P2 |-> 0, P3 |-> 0]

NoFix == counts = NoCounts /\ fix_file = <<>>

\* Python's None
None == [none |-> TRUE]

NoLog ==
    /\ log_text = <<>>
    /\ log_pos = 0
    /\ current_status = "none"
    /\ current_entry = None
    /\ decisions = <<>>

NoResolver == payload = [form |-> "empty"] /\ resolved = [called |-> "none"]

\* main is not running
NoMain ==
    /\ args = <<>>
    /\ comments = <<>>
    /\ comment_type = "none"
    /\ listing = "not_called"
    /\ duplicate = FALSE
    /\ posted = "pending"
    /\ post_calls = 0
    /\ must_fix = <<>>
    /\ optional = <<>>
    /\ runs = 0
    /\ stdout = <<>>
    /\ exit_code = "none"
    /\ cache_files = {}
    /\ owner_repo = "none"
    /\ all_threads = 0

\* no script is running
NoRun == NoText /\ NoPrecheck /\ NoParse /\ NoLog /\ NoResolver /\ NoFix /\ NoMain

NoMerge == /\ duplicate_groups = <<>>
           /\ merged_findings = <<>>
           /\ merged_map = <<>>
           /\ seen = {}
           /\ remerged_findings = <<>>
           /\ remerged_map = <<>>

InitFilter ==
    /\ findings \in BoundedSeq(FilterSample, MaxFilterFindings)
    /\ prior_decisions \in BoundedSeq(DecisionSample, MaxDecisions)
    /\ escalation_groups \in BoundedSeq(EscalationSample \cap Groups, MaxGroups)
    /\ NoMerge
    /\ filtered = <<>>
    /\ pc = "start"
    /\ NoRun

\* a direct call of _filter_by_decision_log
CallFilter ==
    /\ pc = "start"
    /\ filtered' = FilterByDecisionLog(findings, prior_decisions, escalation_groups)
    /\ pc' = "filtered"
    /\ UNCHANGED <<findings, duplicate_groups, prior_decisions, escalation_groups,
                   merged_findings, merged_map, seen, remerged_findings, remerged_map>>
    /\ UNCHANGED frameReview

\* the filtering step of Mode A in main
MainFilter ==
    /\ pc = "start"
    /\ filtered' = IF prior_decisions # <<>>
                   THEN FilterByDecisionLog(findings, prior_decisions, escalation_groups)
                   ELSE findings
    /\ pc' = "main_filtered"
    /\ UNCHANGED <<findings, duplicate_groups, prior_decisions, escalation_groups,
                   merged_findings, merged_map, seen, remerged_findings, remerged_map>>
    /\ UNCHANGED frameReview

NextFilter == CallFilter \/ MainFilter

SpecFilter == InitFilter /\ [][NextFilter]_vars

----------------------------------------------------------------------------
(* _priority_rank *)

\* Python: p.strip().upper() on a priority as the parser stores it (trimmed)
Upper(p) ==
    CASE p = "p0" -> "P0"
      [] p = "p1" -> "P1"
      [] p = "p2" -> "P2"
      [] p = "p3" -> "P3"
      [] p = "high" -> "HIGH"
      [] OTHER -> p

PriorityRank(p) ==
    LET u == Upper(p)
    IN  IF u = "P0" THEN 0
        ELSE IF u = "P1" THEN 1
        ELSE IF u = "P2" THEN 2
        ELSE IF u = "P3" THEN 3
        ELSE 99

----------------------------------------------------------------------------
(* _merge_duplicates *)

\* the empty dict
EmptyMap == [k \in {} |-> <<>>]

\* by_id: id -> the last finding given with that id
ById(fs) ==
    [k \in {fs[i].id : i \in 1..Len(fs)} |->
        fs[CHOOSE i \in 1..Len(fs) :
              fs[i].id = k /\ \A j \in 1..Len(fs) : fs[j].id = k => j <= i]]

RECURSIVE Dedupe(_)
\* list(dict.fromkeys(s)): the first occurrence of every element, in order
Dedupe(s) ==
    IF s = <<>> THEN <<>>
    ELSE LET init == Dedupe(SubSeq(s, 1, Len(s) - 1))
             last == s[Len(s)]
         IN  IF last \in Range(init) THEN init ELSE Append(init, last)

\* the iteration order of by_id: ids in the order of their first occurrence
KeyOrder(fs) == Dedupe([i \in 1..Len(fs) |-> fs[i].id])

\* the members of a group that are keys of by_id, each once
PresentIds(group, by_id) ==
    LET In(i) == i \in DOMAIN by_id
    IN  Dedupe(SelectSeq(group, In))

\* sort_key(a) < sort_key(b)
SortKeyLess(a, b, by_id) ==
    LET ra == PriorityRank(by_id[a].priority)
        rb == PriorityRank(by_id[b].priority)
    IN  ra < rb \/ (ra = rb /\ StrLess(a, b))

\* mutant: the last of the sorted ids instead of the first
CanonicalLast(ids, by_id) ==
    CHOOSE c \in Range(ids) : \A o \in Range(ids) \ {c} : SortKeyLess(o, c, by_id)

\* mutant: the priority is left out of the sort key
CanonicalById(ids, by_id) ==
    CHOOSE c \in Range(ids) : \A o \in Range(ids) \ {c} : StrLess(c, o)

\* sorted(ids, key=sort_key)[0], for ids without repetition
Canonical(ids, by_id) ==
    CHOOSE c \in Range(ids) : \A o \in Range(ids) \ {c} : SortKeyLess(c, o, by_id)

\* merged_map[canonical] = merged
PutMerged(mm, canonical, merged) ==
    [k \in DOMAIN mm \cup {canonical} |-> IF k = canonical THEN merged ELSE mm[k]]

RECURSIVE MergeGroups(_, _, _)
\* the loop over duplicate_groups: merged_map and seen after the first n groups
MergeGroups(groups, n, by_id) ==
    IF n = 0 THEN [merged_map |-> EmptyMap, seen |-> {}]
    ELSE LET prev == MergeGroups(groups, n - 1, by_id)
             ids == PresentIds(groups[n], by_id)
         IN  IF Len(ids) < 2 THEN prev
             ELSE LET canonical == Canonical(ids, by_id)
                      NotCanonical(i) == i # canonical
                      merged == SelectSeq(ids, NotCanonical)
                  IN  IF merged = <<>> THEN prev
                      ELSE [merged_map |-> PutMerged(prev.merged_map, canonical, merged),
                            seen |-> prev.seen \cup Range(merged)]

RECURSIVE Join(_)
\* ", ".join(ids), as text pieces
Join(ids) ==
    IF Len(ids) = 0 THEN <<>>
    ELSE IF Len(ids) = 1 THEN <<ids[1]>>
    ELSE <<ids[1], ", ">> \o Join(Tail(ids))

\* the description of a canonical finding with its note
WithNote(desc, merged) ==
    LET suffix == <<"Also reported as: ">> \o Join(merged)
    IN  IF desc # <<>> THEN desc \o <<"\n">> \o suffix ELSE suffix

\* mutant: the skip test reads merged_map instead of seen
CollectSkipCanonical(order, by_id, mm, absorbed) ==
    LET NotKey(fid) == fid \notin DOMAIN mm
        kept == SelectSeq(order, NotKey)
    IN  [i \in 1..Len(kept) |-> by_id[kept[i]]]

\* mutant: absorbed findings are not skipped
CollectKeepSeen(order, by_id, mm, absorbed) ==
    LET Out(fid) == IF fid \in DOMAIN mm
                    THEN [by_id[fid] EXCEPT !.description = WithNote(@, mm[fid])]
                    ELSE by_id[fid]
    IN  [i \in 1..Len(order) |-> Out(order[i])]

\* the loop over by_id.items(): the findings that are not absorbed, canonical
\* ones with their note
Collect(order, by_id, mm, absorbed) ==
    LET NotSeen(fid) == fid \notin absorbed
        kept == SelectSeq(order, NotSeen)
        Out(fid) == IF fid \in DOMAIN mm
                    THEN [by_id[fid] EXCEPT !.description = WithNote(@, mm[fid])]
                    ELSE by_id[fid]
    IN  [i \in 1..Len(kept) |-> Out(kept[i])]

\* a sort by id alone
OutKeyLeqById(a, b) == a.id = b.id \/ StrLess(a.id, b.id)

\* the key of out.sort: a <= b
OutKeyLeq(a, b) ==
    LET ra == PriorityRank(a.priority)
        rb == PriorityRank(b.priority)
    IN  ra < rb \/ (ra = rb /\ (a.id = b.id \/ StrLess(a.id, b.id)))

RECURSIVE SortOut(_)
\* out.sort(key=(rank, id)): a stable insertion sort
SortOut(s) ==
    IF s = <<>> THEN <<>>
    ELSE LET init == SortOut(SubSeq(s, 1, Len(s) - 1))
             last == s[Len(s)]
             n == Cardinality({i \in 1..Len(init) : OutKeyLeq(init[i], last)})
         IN  SubSeq(init, 1, n) \o <<last>> \o SubSeq(init, n + 1, Len(init))

MergeDuplicates(fs, groups) ==
    LET by_id == ById(fs)
        r == MergeGroups(groups, Len(groups), by_id)
    IN  [out |-> SortOut(Collect(KeyOrder(fs), by_id, r.merged_map, r.seen)),
         merged_map |-> r.merged_map,
         seen |-> r.seen]

----------------------------------------------------------------------------
(* Specification of the duplicate merge *)

\* findings of three reviewers: two reports per id, of different priority,
\* with and without a description
MergeSample ==
    {Finding("CLD-007", "P2", <<"d">>), Finding("CLD-007", "P0", <<>>),
     Finding("GMN-004", "P0", <<"d">>), Finding("GMN-004", "P2", <<>>),
     Finding("SEC-010", "P0", <<>>),    Finding("SEC-010", "high", <<"d">>)}

\* duplicate groups: pairs that share a member, and one group of three
DuplicateSample ==
    {<<"CLD-007", "GMN-004">>, <<"SEC-010", "CLD-007">>,
     <<"GMN-004", "SEC-010">>, <<"GMN-004", "CLD-007", "SEC-010">>}

InitMerge ==
    /\ findings \in BoundedSeq(MergeSample, MaxFindings)
    /\ duplicate_groups \in BoundedSeq(DuplicateSample \cap Groups, MaxDupGroups)
    /\ prior_decisions = <<>>
    /\ escalation_groups = <<>>
    /\ merged_findings = <<>>
    /\ merged_map = EmptyMap
    /\ seen = {}
    /\ remerged_findings = <<>>
    /\ remerged_map = EmptyMap
    /\ filtered = <<>>
    /\ pc = "start"
    /\ NoRun

\* merged_findings, merged_map = _merge_duplicates(all_findings, duplicate_groups)
Merge ==
    /\ pc = "start"
    /\ LET r == MergeDuplicates(findings, duplicate_groups)
       IN  /\ merged_findings' = r.out
           /\ merged_map' = r.merged_map
           /\ seen' = r.seen
    /\ pc' = "merged"
    /\ UNCHANGED <<findings, duplicate_groups, prior_decisions, escalation_groups,
                   remerged_findings, remerged_map, filtered>>
    /\ UNCHANGED frameReview

\* _merge_duplicates on its own output, without duplicate groups
RemergeNoGroups ==
    /\ pc = "merged"
    /\ LET r == MergeDuplicates(merged_findings, <<>>)
       IN  /\ remerged_findings' = r.out
           /\ remerged_map' = r.merged_map
    /\ pc' = "remerged_no_groups"
    /\ UNCHANGED <<findings, duplicate_groups, prior_decisions, escalation_groups,
                   merged_findings, merged_map, seen, filtered>>
    /\ UNCHANGED frameReview

\* _merge_duplicates on its own output, with the same duplicate groups
RemergeSameGroups ==
    /\ pc = "merged"
    /\ LET r == MergeDuplicates(merged_findings, duplicate_groups)
       IN  /\ remerged_findings' = r.out
           /\ remerged_map' = r.merged_map
    /\ pc' = "remerged_same_groups"
    /\ UNCHANGED <<findings, duplicate_groups, prior_decisions, escalation_groups,
                   merged_findings, merged_map, seen, filtered>>
    /\ UNCHANGED frameReview

NextMerge == Merge \/ RemergeNoGroups \/ RemergeSameGroups

SpecMerge == InitMerge /\ [][NextMerge]_vars

----------------------------------------------------------------------------
(* The aggregate script, one invocation after another on one pull request *)

MaxMainFindings == 3

MaxComments == 1

MaxRuns == 2

\* p is the beginning of s
IsPrefix(p, s) == Len(p) <= Len(s) /\ SubSeq(s, 1, Len(p)) = p

\* the section header of a comment of a kind and round
TypeHeader(kind, round_num) ==
    IF kind = "review-summary" THEN <<"## Review Summary (Round ", round_num, ")">>
    ELSE IF kind = "fix-report" THEN <<"## Fix Report (Round ", round_num, ")">>
    ELSE <<"## Final Report">>

\* what the renderers put in a body of the things the listing is searched
\* for: the marker, the section header, the line "- RunId: <run id>"
Body(kind, round_num, run_id) ==
    [marker |-> TRUE, header |-> TypeHeader(kind, round_num), run_id |-> run_id]

\* the loop of _check_existing_comment over the comments listed: the three
\* substring tests; "RunId: <run_id>" is in the line "- RunId: <id>" when
\* run_id is the beginning of id
CheckExistingComment(cs, run_id, round_num, kind) ==
    \E i \in 1..Len(cs) :
        /\ cs[i].marker
        /\ cs[i].header = TypeHeader(kind, round_num)
        /\ IsPrefix(run_id, cs[i].run_id)

\* the early returns of main that read the arguments, without the context check
ArgErrorNoContextCheck(a) ==
    IF ~a.valid THEN "INVALID_ARGS"
    ELSE IF a.final_report THEN "none"
    ELSE IF a.fix_report_file # "none"
         THEN IF a.fix_report_file = "missing" THEN "FIX_REPORT_FILE_NOT_FOUND" ELSE "none"
    ELSE IF a.review_files = <<>> THEN "MISSING_REVIEW_FILES"
    ELSE IF \A i \in 1..Len(a.review_files) : ~a.review_files[i]
         THEN "REVIEW_FILES_NOT_FOUND"
    ELSE "none"

\* the early returns of main that read the arguments: the error code, or "none"
ArgError(a) ==
    IF ~a.valid THEN "INVALID_ARGS"
    ELSE IF a.final_report THEN "none"
    ELSE IF a.fix_report_file # "none"
         THEN IF a.fix_report_file = "missing" THEN "FIX_REPORT_FILE_NOT_FOUND" ELSE "none"
    ELSE IF a.context_file = "none" THEN "MISSING_CONTEXT_FILE"
    ELSE IF a.review_files = <<>> THEN "MISSING_REVIEW_FILES"
    ELSE IF a.context_file = "missing" THEN "CONTEXT_FILE_NOT_FOUND"
    ELSE IF \A i \in 1..Len(a.review_files) : ~a.review_files[i]
         THEN "REVIEW_FILES_NOT_FOUND"
    ELSE "none"

\* the branch of main that the arguments select
CommentType(a) ==
    IF a.final_report THEN "final-report"
    ELSE IF a.fix_report_file # "none" THEN "fix-report"
    ELSE "review-summary"

\* a mandatory tier that takes P2 as well
MustFixUpToP2(fs) ==
    LET Test(f) == PriorityRank(f.priority) <= 2
    IN  SelectSeq(fs, Test)

MustFix(fs) ==
    LET Test(f) == PriorityRank(f.priority) <= 1
    IN  SelectSeq(fs, Test)

Optional(fs) ==
    LET Test(f) == PriorityRank(f.priority) >= 2
    IN  SelectSeq(fs, Test)

\* _counts: a finding is counted under its priority in upper case when that
\* is one of the four keys, and under nothing otherwise
Counts(fs) ==
    LET N(p) == Cardinality({i \in 1..Len(fs) : Upper(fs[i].priority) = p})
    IN  [P0 |-> N("P0"), P1 |-> N("P1"), P2 |-> N("P2"), P3 |-> N("P3")]

\* the block written for the finding f under the heading section:
\* f.get("id") or "" as it is, (f.get("priority") or "P3").strip()
FixBlock(section, f) ==
    [section |-> section, id |-> f.id,
     priority |-> IF f.priority = "" THEN "P3" ELSE f.priority]

\* blocks that go by the name of the tier they are not in
FixFileBlocksSwapped(mf, opt) ==
    [i \in 1..Len(mf) |-> FixBlock("OptionalIssues", mf[i])]
        \o [i \in 1..Len(opt) |-> FixBlock("IssuesToFix", opt[i])]

\* the blocks of the fix file: those of must_fix under "## IssuesToFix", then
\* those of optional under "## OptionalIssues"
FixFileBlocks(mf, opt) ==
    [i \in 1..Len(mf) |-> FixBlock("IssuesToFix", mf[i])]
        \o [i \in 1..Len(opt) |-> FixBlock("OptionalIssues", opt[i])]

\* _json_out followed by return
Emit(obj, code) ==
    /\ stdout' = Append(stdout, obj)
    /\ exit_code' = code
    /\ pc' = "done"

\* argument parsing and the checks of the files named, up to the branch taken
Validate ==
    /\ pc = "start"
    /\ LET e == ArgError(args)
       IN  IF e # "none"
           THEN /\ Emit([error |-> e], IF e = "INVALID_ARGS" THEN 2 ELSE 1)
                /\ UNCHANGED comment_type
           ELSE /\ comment_type' = CommentType(args)
                /\ pc' = IF CommentType(args) = "review-summary" THEN "aggregate" ELSE "render"
                /\ UNCHANGED <<stdout, exit_code>>
    /\ UNCHANGED <<reviewVars, args, comments, listing, duplicate, posted,
                   post_calls, must_fix, optional, runs, cache_files>>
    /\ UNCHANGED frameMain
    /\ UNCHANGED fixVars

\* Mode A: merge, decision-log filter, tiers
Aggregate ==
    /\ pc = "aggregate"
    /\ LET r == MergeDuplicates(findings, duplicate_groups)
           f == IF prior_decisions # <<>>
                THEN FilterByDecisionLog(r.out, prior_decisions, escalation_groups)
                ELSE r.out
       IN  /\ merged_findings' = r.out
           /\ merged_map' = r.merged_map
           /\ seen' = r.seen
           /\ filtered' = f
           /\ counts' = Counts(f)
           /\ must_fix' = MustFix(f)
           /\ optional' = Optional(f)
    /\ pc' = "render"
    /\ UNCHANGED fix_file
    /\ UNCHANGED <<findings, duplicate_groups, prior_decisions, escalation_groups,
                   remerged_findings, remerged_map>>
    /\ UNCHANGED <<args, comments, comment_type, listing, duplicate, posted,
                   post_calls, runs, outVars>>
    /\ UNCHANGED frameMain

\* the comment body is rendered and written to the cache
WriteBody ==
    /\ pc = "render"
    /\ cache_files' = cache_files \cup {"body"}
    /\ pc' = "post"
    /\ UNCHANGED <<reviewVars, mainVars, stdout, exit_code>>
    /\ UNCHANGED frameMain
    /\ UNCHANGED fixVars

\* _post_pr_comment up to the post command: the idempotency check
PostCheck ==
    /\ pc = "post"
    /\ IF args.run_id # <<>> /\ args.round # 0
       THEN \E list_ok \in BOOLEAN :
               LET d == list_ok /\ CheckExistingComment(comments, args.run_id,
                                                        args.round, comment_type)
               IN  /\ listing' = IF list_ok THEN "ok" ELSE "failed"
                   /\ duplicate' = d
                   /\ posted' = IF d THEN "ok" ELSE posted
                   /\ pc' = IF d THEN "posted" ELSE "gh_comment"
       ELSE /\ pc' = "gh_comment"
            /\ UNCHANGED <<listing, duplicate, posted>>
    /\ UNCHANGED <<reviewVars, args, comments, comment_type, post_calls,
                   must_fix, optional, runs, outVars>>
    /\ UNCHANGED frameMain
    /\ UNCHANGED fixVars

\* gh pr comment --body-file
GhPrComment ==
    /\ pc = "gh_comment"
    /\ post_calls' = post_calls + 1
    /\ \E rc_ok \in BOOLEAN :
          IF rc_ok
          THEN /\ comments' = Append(comments, Body(comment_type, args.round, args.run_id))
               /\ posted' = "ok"
          ELSE /\ posted' = "failed"
               /\ UNCHANGED comments
    /\ pc' = "posted"
    /\ UNCHANGED <<reviewVars, args, comment_type, listing, duplicate,
                   must_fix, optional, runs, outVars>>
    /\ UNCHANGED frameMain
    /\ UNCHANGED fixVars

\* a report that goes on to the fix file although the post failed
ReportIgnoringPost ==
    /\ pc = "posted"
    /\ IF comment_type = "final-report" THEN Emit([ok |-> TRUE, final |-> TRUE], 0)
       ELSE IF comment_type = "fix-report" THEN Emit([ok |-> TRUE], 0)
       ELSE IF must_fix = <<>> THEN Emit([stop |-> TRUE], 0)
       ELSE /\ pc' = "fix_file"
            /\ UNCHANGED <<stdout, exit_code>>
    /\ UNCHANGED <<reviewVars, mainVars, cache_files>>
    /\ UNCHANGED frameMain
    /\ UNCHANGED fixVars

\* what main does with the value returned by _post_pr_comment
Report ==
    /\ pc = "posted"
    /\ IF posted = "failed" THEN Emit([error |-> "GH_PR_COMMENT_FAILED"], 1)
       ELSE IF comment_type = "final-report" THEN Emit([ok |-> TRUE, final |-> TRUE], 0)
       ELSE IF comment_type = "fix-report" THEN Emit([ok |-> TRUE], 0)
       ELSE IF must_fix = <<>> THEN Emit([stop |-> TRUE], 0)
       ELSE /\ pc' = "fix_file"
            /\ UNCHANGED <<stdout, exit_code>>
    /\ UNCHANGED <<reviewVars, mainVars, cache_files>>
    /\ UNCHANGED frameMain
    /\ UNCHANGED fixVars

\* the fix file is written and its reference is the result
WriteFixFile ==
    /\ pc = "fix_file"
    /\ fix_file' = FixFileBlocks(must_fix, optional)
    /\ cache_files' = cache_files \cup {"fix"}
    /\ Emit([stop |-> FALSE, fixFile |-> "fix"], 0)
    /\ UNCHANGED <<reviewVars, mainVars, counts>>
    /\ UNCHANGED frameMain

\* an exception that nothing in main catches: a file that cannot be read or
\* written, a gh that cannot be started
Unexpected ==
    /\ pc \in {"start", "aggregate", "render", "gh_comment", "fix_file"}
    /\ Emit([error |-> "AGGREGATE_SCRIPT_FAILED"], 1)
    /\ UNCHANGED <<reviewVars, mainVars, cache_files>>
    /\ UNCHANGED frameMain
    /\ UNCHANGED fixVars

\* the script is run again with the same command line
Reinvoke ==
    /\ pc = "done"
    /\ runs < MaxRuns
    /\ runs' = runs + 1
    /\ merged_findings' = <<>>
    /\ merged_map' = EmptyMap
    /\ seen' = {}
    /\ filtered' = <<>>
    /\ comment_type' = "none"
    /\ listing' = "not_called"
    /\ duplicate' = FALSE
    /\ posted' = "pending"
    /\ post_calls' = 0
    /\ must_fix' = <<>>
    /\ optional' = <<>>
    /\ stdout' = <<>>
    /\ exit_code' = "none"
    /\ cache_files' = {}
    /\ counts' = NoCounts
    /\ fix_file' = <<>>
    /\ pc' = "start"
    /\ UNCHANGED <<findings, duplicate_groups, prior_decisions, escalation_groups,
                   remerged_findings, remerged_map, args, comments>>
    /\ UNCHANGED frameMain

\* the state of a first invocation before it reads its arguments
Fresh ==
    /\ NoText /\ NoPrecheck /\ NoParse /\ NoLog /\ NoResolver /\ NoFix
    /\ merged_findings = <<>>
    /\ merged_map = EmptyMap
    /\ seen = {}
    /\ remerged_findings = <<>>
    /\ remerged_map = EmptyMap
    /\ filtered = <<>>
    /\ comment_type = "none"
    /\ listing = "not_called"
    /\ duplicate = FALSE
    /\ posted = "pending"
    /\ post_calls = 0
    /\ must_fix = <<>>
    /\ optional = <<>>
    /\ runs = 1
    /\ stdout = <<>>
    /\ exit_code = "none"
    /\ cache_files = {}
    /\ owner_repo = "none"
    /\ all_threads = 0
    /\ pc = "start"

(* Mode A on the findings of the reviewers *)

\* findings of every priority tier, one of them with a priority that is none
\* of P0..P3
MainSample ==
    {Finding("SEC-010", "P0", <<>>), Finding("CLD-007", "p1", <<"d">>),
     Finding("GMN-004", "P2", <<>>), Finding("GMN-004", "P3", <<"d">>),
     Finding("SEC-010", "high", <<"d">>)}

ModeAArgs ==
    [valid |-> TRUE, round |-> 1, run_id |-> <<"a">>, final_report |-> FALSE,
     fix_report_file |-> "none", context_file |-> "present", review_files |-> <<TRUE>>]

InitModeA ==
    /\ args = ModeAArgs
    /\ comments = <<>>
    /\ findings \in BoundedSeq(MainSample, MaxMainFindings)
    /\ duplicate_groups \in {<<>>, << <<"CLD-007", "GMN-004">> >>}
    /\ prior_decisions \in {<<>>, <<[id |-> "SEC-010", status |-> "fixed"]>>}
    /\ escalation_groups = <<>>
    /\ Fresh

NextModeA ==
    \/ Validate \/ Aggregate \/ WriteBody \/ PostCheck
    \/ GhPrComment \/ Report \/ WriteFixFile \/ Unexpected

SpecModeA == InitModeA /\ [][NextModeA]_vars

(* Every command line, on a pull request that has comments already *)

Rounds == {0, 1}

RunIds == {<<>>, <<"a">>}

ReviewFileSample == {<<>>, <<FALSE>>, <<TRUE>>, <<FALSE, TRUE>>}

\* a command line that argparse rejects
InvalidArgs ==
    [valid |-> FALSE, round |-> 1, run_id |-> <<>>, final_report |-> FALSE,
     fix_report_file |-> "none", context_file |-> "none", review_files |-> <<>>]

ArgsSample ==
    {InvalidArgs} \cup
    [valid : {TRUE}, round : Rounds, run_id : RunIds, final_report : BOOLEAN,
     fix_report_file : {"none", "missing", "present"},
     context_file : {"none", "missing", "present"},
     review_files : ReviewFileSample]

\* comments of run "a", round 1, of each kind; one without the marker, one of
\* round 2, one of the run "ab"
CommentSample ==
    {Body(k, 1, <<"a">>) : k \in {"review-summary", "fix-report", "final-report"}}
    \cup {[Body("review-summary", 1, <<"a">>) EXCEPT !.marker = FALSE],
          Body("review-summary", 2, <<"a">>),
          Body("review-summary", 1, <<"a", "b">>)}

InitRuns ==
    /\ args \in ArgsSample
    /\ comments \in BoundedSeq(CommentSample, MaxComments)
    /\ findings \in {<<>>, <<Finding("CLD-007", "P0", <<>>)>>}
    /\ (ArgError(args) # "none" \/ CommentType(args) # "review-summary")
          => findings = <<>>
    /\ duplicate_groups = <<>>
    /\ prior_decisions = <<>>
    /\ escalation_groups = <<>>
    /\ Fresh

NextRuns == NextModeA \/ Reinvoke

SpecRuns == InitRuns /\ [][NextRuns]_vars

----------------------------------------------------------------------------
(* The review harvester, gh_review_harvest.py *)

MaxPages == 2

\* str.strip() on a string given as the sequence of its characters
Strip(s) ==
    LET idx == {i \in 1..Len(s) : s[i] # " "}
    IN  IF idx = {} THEN <<>>
        ELSE SubSeq(s, CHOOSE i \in idx : \A j \in idx : i <= j,
                       CHOOSE i \in idx : \A j \in idx : j <= i)

\* "/" in s, for the repository names of the model
HasSlash(s) == s = "owner/repo"

\* main up to the arguments parsed
HarvestParseArgs ==
    /\ pc = "start"
    /\ IF ~args.valid
       THEN Emit([error |-> "INVALID_ARGS"], 2)
       ELSE /\ pc' = "auth"
            /\ UNCHANGED <<stdout, exit_code>>
    /\ UNCHANGED <<reviewVars, mainVars, cache_files, harvestVars>>
    /\ UNCHANGED frameHarvest

\* _require_gh_auth: gh auth status
RequireGhAuth ==
    /\ pc = "auth"
    /\ \E rc \in {0, 1, 127} :
          IF rc = 127 THEN Emit([error |-> "GH_CLI_NOT_FOUND"], 1)
          ELSE IF rc # 0 THEN Emit([error |-> "GH_NOT_AUTHENTICATED"], 1)
          ELSE /\ pc' = "repo"
               /\ UNCHANGED <<stdout, exit_code>>
    /\ UNCHANGED <<reviewVars, mainVars, cache_files, harvestVars>>
    /\ UNCHANGED frameHarvest

\* _resolve_owner_repo and the checks of its result and of the run id
ResolveOwnerRepo ==
    /\ pc = "repo"
    /\ \E view \in {"none", "name", "owner/repo"} :
          LET r == IF HasSlash(args.repo) THEN args.repo ELSE view
          IN  IF r = "none" THEN
                  Emit([error |-> "REPO_NOT_FOUND"], 1) /\ UNCHANGED owner_repo
              ELSE IF ~HasSlash(r) THEN
                  Emit([error |-> "INVALID_REPO"], 1) /\ UNCHANGED owner_repo
              ELSE IF Strip(args.run_id) = <<>> THEN
                  Emit([error |-> "MISSING_RUN_ID"], 1) /\ UNCHANGED owner_repo
              ELSE /\ owner_repo' = r
                   /\ pc' = "mkdir"
                   /\ UNCHANGED <<stdout, exit_code>>
    /\ UNCHANGED <<reviewVars, mainVars, cache_files, all_threads>>
    /\ UNCHANGED frameHarvest

\* CACHE_DIR.mkdir(parents=True, exist_ok=True)
MkCacheDir ==
    /\ pc = "mkdir"
    /\ pc' = "threads"
    /\ UNCHANGED <<reviewVars, mainVars, outVars, harvestVars>>
    /\ UNCHANGED frameHarvest

\* _fetch_all_review_threads: one page; an error raised in it is caught in main
FetchThreadsPage ==
    /\ pc = "threads"
    /\ \E outcome \in {"failed", "more", "last"} :
          IF outcome = "failed"
          THEN Emit([error |-> "HARVEST_FAILED"], 1) /\ UNCHANGED all_threads
          ELSE /\ all_threads' = all_threads + 1
               /\ pc' = IF outcome = "more" /\ all_threads + 1 < MaxPages
                        THEN "threads" ELSE "reviews"
               /\ UNCHANGED <<stdout, exit_code>>
    /\ UNCHANGED <<reviewVars, mainVars, cache_files, owner_repo>>
    /\ UNCHANGED frameHarvest

\* the reviews and issue comments are fetched and the raw file is written
WriteRawFile ==
    /\ pc = "reviews"
    /\ \E ok \in BOOLEAN :
          IF ok
          THEN /\ cache_files' = cache_files \cup {"raw"}
               /\ pc' = "emit"
               /\ UNCHANGED <<stdout, exit_code>>
          ELSE Emit([error |-> "HARVEST_FAILED"], 1) /\ UNCHANGED cache_files
    /\ UNCHANGED <<reviewVars, mainVars, harvestVars>>
    /\ UNCHANGED frameHarvest

\* _json_out({"rawFile": ...})
EmitRawFile ==
    /\ pc = "emit"
    /\ Emit([rawFile |-> "raw"], 0)
    /\ UNCHANGED <<reviewVars, mainVars, cache_files, harvestVars>>
    /\ UNCHANGED frameHarvest

\* an exception raised outside the try of main: a gh that cannot be executed,
\* a cache directory that cannot be made. __main__ has no handler: the
\* traceback goes to stderr and the status is 1
HarvestUncaught ==
    /\ pc \in {"auth", "repo", "mkdir"}
    /\ exit_code' = 1
    /\ pc' = "done"
    /\ UNCHANGED <<reviewVars, mainVars, stdout, cache_files, harvestVars>>
    /\ UNCHANGED frameHarvest

HarvestArgsSample ==
    {[valid |-> FALSE, repo |-> "none", run_id |-> <<>>]} \cup
    [valid : {TRUE}, repo : {"none", "name", "owner/repo"},
     run_id : {<<>>, <<" ">>, <<"a">>, <<"a", " ">>}]

InitHarvest ==
    /\ args \in HarvestArgsSample
    /\ findings = <<>>
    /\ duplicate_groups = <<>>
    /\ prior_decisions = <<>>
    /\ escalation_groups = <<>>
    /\ comments = <<>>
    /\ Fresh

NextHarvest ==
    \/ HarvestParseArgs \/ RequireGhAuth \/ ResolveOwnerRepo \/ MkCacheDir
    \/ FetchThreadsPage \/ WriteRawFile \/ EmitRawFile \/ HarvestUncaught

SpecHarvest == InitHarvest /\ [][NextHarvest]_vars

----------------------------------------------------------------------------
(* The comment renderers. A text is the sequence of its pieces; the absolute *)
(* path of the repository root is one piece, written "ROOT".                 *)

MaxTextLen == 3

\* str(REPO_ROOT.resolve())
RepoAbs == <<"ROOT">>

\* str(CACHE_DIR.resolve()), the directory .cache of the repository root
CacheAbs == RepoAbs \o <<"/", ".cache">>

RECURSIVE Replace(_, _, _)
\* text.replace(old, new): every occurrence from the left, none overlapping
Replace(text, old, new) ==
    IF Len(text) < Len(old) THEN text
    ELSE IF SubSeq(text, 1, Len(old)) = old
         THEN new \o Replace(SubSeq(text, Len(old) + 1, Len(text)), old, new)
         ELSE <<Head(text)>> \o Replace(Tail(text), old, new)

SanitizeForComment(text) ==
    Replace(Replace(text, CacheAbs \o <<"/">>, <<"[cache]", "/">>),
            RepoAbs \o <<"/">>, <<>>)

\* old in text
Contains(text, old) ==
    \E i \in 1..(Len(text) + 1 - Len(old)) : SubSeq(text, i, i + Len(old) - 1) = old

RECURSIVE Concat(_)
\* the texts of a list one after the other
Concat(ts) == IF ts = <<>> THEN <<>> ELSE Head(ts) \o Concat(Tail(ts))

\* the lines of _render_mode_a_comment for one mandatory finding
ModeAEntry(f, mm) ==
    <<"- ", f.id, " (", f.priority, ") ", f.title, "\n", "  - ">> \o f.file
    \o <<":", f.line, "\n">>
    \o (IF f.id \in DOMAIN mm THEN <<"  - merged: ">> \o mm[f.id] \o <<"\n">> ELSE <<>>)
    \o (IF f.suggestion # <<>>
        THEN <<"  - suggestion: ">> \o SanitizeForComment(f.suggestion) \o <<"\n">>
        ELSE <<>>)

\* _render_mode_a_comment; the lines of the pull request number, the run id
\* and the counts hold no text given by a reviewer and are left out; <md> and
\* </md> stand for the code fences
RenderModeAComment(must, mm, reviews) ==
    <<"<!-- pr-review-loop-marker -->", "\n", "## Review Summary", "\n">>
    \o (IF must # <<>>
        THEN <<"## Must Fix (P0/P1)", "\n">>
             \o Concat([i \in 1..Len(must) |-> ModeAEntry(must[i], mm)])
        ELSE <<"## Result", "\n", "No P0/P1 issues found.", "\n">>)
    \o <<"<details>", "\n">>
    \o Concat([i \in 1..Len(reviews) |->
                  <<"### ">> \o reviews[i][1] \o <<"\n", "<md>", "\n">>
                  \o SanitizeForComment(reviews[i][2]) \o <<"\n", "</md>", "\n">>])
    \o <<"</details>", "\n">>

RenderModeBComment(md) ==
    <<"<!-- pr-review-loop-marker -->", "\n", "## Fix Report", "\n">>
    \o SanitizeForComment(md) \o <<"\n">>

\* body = _render_mode_a_comment(...)
RenderModeA ==
    /\ pc = "start"
    /\ comment_type = "review-summary"
    /\ body' = RenderModeAComment(must_fix, merged_map, raw_reviews)
    /\ pc' = "rendered"
    /\ UNCHANGED <<reviewVars, mainVars, outVars, harvestVars, raw_reviews,
                   fix_report_md, precheckVars, parseVars>>
    /\ UNCHANGED frameOther

\* body = _render_mode_b_comment(...)
RenderModeB ==
    /\ pc = "start"
    /\ comment_type = "fix-report"
    /\ body' = RenderModeBComment(fix_report_md)
    /\ pc' = "rendered"
    /\ UNCHANGED <<reviewVars, mainVars, outVars, harvestVars, raw_reviews,
                   fix_report_md, precheckVars, parseVars>>
    /\ UNCHANGED frameOther

\* texts of a reviewer or of the fixer
Texts == BoundedSeq({"ROOT", "/", ".cache", "x"}, MaxTextLen)

\* the file of a finding: relative to the repository, or absolute
FileSample == {<<"x">>, RepoAbs \o <<"/", "x">>}

SuggestionSample == {<<>>, <<"x">>, RepoAbs \o <<"/", "x">>}

\* a review-file reference: relative to the repository, or absolute under the
\* cache directory
RefSample == {<<".", "/", ".cache", "/", "x">>, CacheAbs \o <<"/", "x">>}

CommentFinding(file, sugg) ==
    [id |-> "SEC-010", priority |-> "P0", category |-> "quality", file |-> file,
     line |-> "7", title |-> "t", description |-> <<>>, suggestion |-> sugg]

InitComment ==
    /\ comment_type \in {"review-summary", "fix-report"}
    /\ must_fix \in {<<>>} \cup {<<CommentFinding(f, s)>> : f \in FileSample,
                                                          s \in SuggestionSample}
    /\ raw_reviews \in {<<>>} \cup {<< <<n, c>> >> : n \in RefSample, c \in Texts}
    /\ fix_report_md \in Texts
    /\ comment_type = "review-summary" => fix_report_md = <<>> /\ raw_reviews # <<>>
    /\ comment_type = "fix-report" => must_fix = <<>> /\ raw_reviews = <<>>
    /\ body = <<>>
    /\ findings = <<>>
    /\ duplicate_groups = <<>>
    /\ prior_decisions = <<>>
    /\ escalation_groups = <<>>
    /\ merged_findings = <<>>
    /\ merged_map = EmptyMap
    /\ seen = {}
    /\ remerged_findings = <<>>
    /\ remerged_map = EmptyMap
    /\ filtered = <<>>
    /\ args = <<>>
    /\ comments = <<>>
    /\ listing = "not_called"
    /\ duplicate = FALSE
    /\ posted = "pending"
    /\ post_calls = 0
    /\ optional = <<>>
    /\ runs = 1
    /\ stdout = <<>>
    /\ exit_code = "none"
    /\ cache_files = {}
    /\ owner_repo = "none"
    /\ all_threads = 0
    /\ NoPrecheck /\ NoParse /\ NoLog /\ NoResolver /\ NoFix
    /\ pc = "start"

NextComment == RenderModeA \/ RenderModeB

SpecComment == InitComment /\ [][NextComment]_vars

----------------------------------------------------------------------------
(* pr_precheck.py: lint and build in two worker threads *)

\* exit codes of a command: success, failure, command not found
ExitCodes == {0, 1, 127}

Workers == {"lint", "build"}

PrecheckErrors ==
    {"PR_NUMBER_NOT_PROVIDED", "ROUND_INVALID", "INVALID_ARGS", "NOT_A_GIT_REPO",
     "GH_CLI_NOT_FOUND", "GH_NOT_AUTHENTICATED", "PR_NOT_FOUND_OR_NO_ACCESS",
     "PR_HEAD_OID_NOT_FOUND", "PR_CHECKOUT_FAILED", "PR_BASE_REF_NOT_FOUND",
     "PR_BASE_REF_FETCH_FAILED", "PR_MERGE_CONFLICTS_UNRESOLVED"}

\* results.get(name, 1)
ResultsGet(name) == IF results[name].set THEN results[name].rc ELSE 1

\* the issue of the fix file for a command that failed
PrecheckIssue(i, name) ==
    [id |-> <<"PRE-", 0, 0, i>>,
     priority |-> IF name = "lint" THEN "P1" ELSE "P0",
     category |-> name]

\* the arguments and the state of the repository and of the pull request are
\* checked: an error object, or on to dx cache clear
Preconditions ==
    /\ pc = "start"
    /\ \E e \in PrecheckErrors \cup {"none"} :
          IF e # "none" THEN Emit([error |-> e], 1)
          ELSE /\ pc' = "cache_clear"
               /\ UNCHANGED <<stdout, exit_code>>
    /\ UNCHANGED <<reviewVars, mainVars, cache_files, harvestVars, textVars,
                   precheckVars, parseVars>>
    /\ UNCHANGED frameOther

\* dx cache clear; its failure is the one issue of the fix file
CacheClear ==
    /\ pc = "cache_clear"
    /\ \E rc \in ExitCodes :
          IF rc # 0
          THEN /\ issues' = <<[id |-> <<"PRE-", 0, 0, 1>>, priority |-> "P1",
                               category |-> "quality"]>>
               /\ cache_files' = cache_files \cup {"fix"}
               /\ Emit([ok |-> FALSE, fixFile |-> "fix"], 1)
          ELSE /\ pc' = "t1_start"
               /\ UNCHANGED <<issues, outVars>>
    /\ UNCHANGED <<reviewVars, mainVars, harvestVars, textVars, results, threads,
                   parseVars>>
    /\ UNCHANGED frameOther

\* t1.start()
StartLint ==
    /\ pc = "t1_start"
    /\ threads' = [threads EXCEPT !["lint"].state = "started"]
    /\ pc' = "t2_start"
    /\ UNCHANGED <<reviewVars, mainVars, outVars, harvestVars, textVars, results,
                   issues, parseVars>>
    /\ UNCHANGED frameOther

\* t2.start()
StartBuild ==
    /\ pc = "t2_start"
    /\ threads' = [threads EXCEPT !["build"].state = "started"]
    /\ pc' = "t1_join"
    /\ UNCHANGED <<reviewVars, mainVars, outVars, harvestVars, textVars, results,
                   issues, parseVars>>
    /\ UNCHANGED frameOther

\* a worker runs its command: run returns the exit code, or raises what it
\* does not catch and the thread ends without a result
WorkerCommand(name) ==
    /\ threads[name].state = "started"
    /\ \E rc \in ExitCodes, raised \in BOOLEAN :
          threads' = [threads EXCEPT ![name] =
                         IF raised THEN [state |-> "finished", rc |-> 1]
                         ELSE [state |-> "returned", rc |-> rc]]
    /\ UNCHANGED <<reviewVars, mainVars, outVars, harvestVars, textVars, results,
                   issues, parseVars, pc>>
    /\ UNCHANGED frameOther

\* results[name] = the exit code, and the thread ends
WorkerStore(name) ==
    /\ threads[name].state = "returned"
    /\ results' = [results EXCEPT ![name] = [set |-> TRUE, rc |-> threads[name].rc]]
    /\ threads' = [threads EXCEPT ![name].state = "finished"]
    /\ UNCHANGED <<reviewVars, mainVars, outVars, harvestVars, textVars, issues,
                   parseVars, pc>>
    /\ UNCHANGED frameOther

\* t1.join()
JoinLint ==
    /\ pc = "t1_join"
    /\ threads["lint"].state = "finished"
    /\ pc' = "t2_join"
    /\ UNCHANGED <<reviewVars, mainVars, outVars, harvestVars, textVars,
                   precheckVars, parseVars>>
    /\ UNCHANGED frameOther

\* a join that does not wait
JoinBuildNoWait ==
    /\ pc = "t2_join"
    /\ pc' = "decide"
    /\ UNCHANGED <<reviewVars, mainVars, outVars, harvestVars, textVars,
                   precheckVars, parseVars>>
    /\ UNCHANGED frameOther

\* t2.join()
JoinBuild ==
    /\ pc = "t2_join"
    /\ threads["build"].state = "finished"
    /\ pc' = "decide"
    /\ UNCHANGED <<reviewVars, mainVars, outVars, harvestVars, textVars,
                   precheckVars, parseVars>>
    /\ UNCHANGED frameOther

\* the decision on the two results: ok, or the fix file with the issues
Decide ==
    /\ pc = "decide"
    /\ IF ResultsGet("lint") = 0 /\ ResultsGet("build") = 0
       THEN /\ Emit([ok |-> TRUE], 0)
            /\ UNCHANGED <<issues, cache_files>>
       ELSE LET lint == IF ResultsGet("lint") # 0
                        THEN <<PrecheckIssue(1, "lint")>> ELSE <<>>
                build == IF ResultsGet("build") # 0
                         THEN <<PrecheckIssue(Len(lint) + 1, "build")>> ELSE <<>>
            IN  /\ issues' = lint \o build
                /\ cache_files' = cache_files \cup {"fix"}
                /\ Emit([ok |-> FALSE, fixFile |-> "fix"], 1)
    /\ UNCHANGED <<reviewVars, mainVars, harvestVars, textVars, results, threads,
                   parseVars>>
    /\ UNCHANGED frameOther

\* an exception that main does not catch: a file that cannot be written, a
\* thread that cannot be started
PrecheckUnexpected ==
    /\ pc \in {"start", "cache_clear", "t1_start", "t2_start", "decide"}
    /\ Emit([error |-> "PRECHECK_SCRIPT_FAILED"], 1)
    /\ UNCHANGED <<reviewVars, mainVars, cache_files, harvestVars, textVars,
                   precheckVars, parseVars>>
    /\ UNCHANGED frameOther

InitPrecheck ==
    /\ results = [n \in Workers |-> [set |-> FALSE, rc |-> 1]]
    /\ threads = [n \in Workers |-> [state |-> "new", rc |-> 1]]
    /\ issues = <<>>
    /\ findings = <<>>
    /\ duplicate_groups = <<>>
    /\ prior_decisions = <<>>
    /\ escalation_groups = <<>>
    /\ merged_findings = <<>>
    /\ merged_map = EmptyMap
    /\ seen = {}
    /\ remerged_findings = <<>>
    /\ remerged_map = EmptyMap
    /\ filtered = <<>>
    /\ args = <<>>
    /\ comments = <<>>
    /\ comment_type = "none"
    /\ listing = "not_called"
    /\ duplicate = FALSE
    /\ posted = "pending"
    /\ post_calls = 0
    /\ must_fix = <<>>
    /\ optional = <<>>
    /\ runs = 1
    /\ stdout = <<>>
    /\ exit_code = "none"
    /\ cache_files = {}
    /\ owner_repo = "none"
    /\ all_threads = 0
    /\ NoText /\ NoParse /\ NoLog /\ NoResolver /\ NoFix
    /\ pc = "start"

NextPrecheck ==
    \/ Preconditions \/ CacheClear \/ StartLint \/ StartBuild
    \/ \E name \in Workers : WorkerCommand(name)
    \/ \E name \in Workers : WorkerStore(name)
    \/ JoinLint \/ JoinBuild \/ Decide \/ PrecheckUnexpected

SpecPrecheck == InitPrecheck /\ [][NextPrecheck]_vars

----------------------------------------------------------------------------
(* _parse_review_findings. A line is its indentation, whether "- " follows  *)
(* it, the word before the first colon ("" when the line has no such word) *)
(* and the characters after the colon; a value is a sequence of pieces, the *)
(* piece " " a blank.                                                       *)

MaxLines == 3

Line(indent, dash, key, value) ==
    [indent |-> indent, dash |-> dash, key |-> key, value |-> value]

\* the line opens a finding. codex: ^\s*(?:-\s*)?id:\s*(.+)$ wants one
\* character at least after the colon; opencode: line.startswith("- id:")
IsIdLine(variant, l) ==
    IF variant = "codex"
    THEN l.key = "id" /\ l.value # <<>>
    ELSE l.key = "id" /\ l.dash /\ l.indent = 0

\* a field pattern that wants two blanks before the key in both scripts
IsFieldLineIndented(variant, l) ==
    IF variant = "codex"
    THEN l.key \notin {"", "id"} /\ ~l.dash /\ l.indent = 2
    ELSE l.key # "" /\ ~l.dash /\ l.indent = 2

\* the line is a field of the open finding. codex:
\* ^\s*([a-zA-Z][a-zA-Z0-9]*):\s*(.*)$ and the key id is skipped; opencode:
\* ^\s{2}([a-zA-Z][a-zA-Z0-9]*):\s*(.*)$
IsFieldLine(variant, l) ==
    IF variant = "codex"
    THEN l.key \notin {"", "id"} /\ ~l.dash
    ELSE l.key # "" /\ ~l.dash /\ l.indent = 2

\* cur[k] = v
Put(d, k, v) == [x \in DOMAIN d \cup {k} |-> IF x = k THEN v ELSE d[x]]

RECURSIVE ParseLines(_, _, _, _)
\* the loop over the lines: cur is the open finding, items the closed ones
ParseLines(variant, ls, cur, items) ==
    LET closed == IF cur.open THEN Append(items, cur.d) ELSE items
    IN  IF ls = <<>> THEN closed
        ELSE IF IsIdLine(variant, Head(ls))
        THEN ParseLines(variant, Tail(ls),
                        [open |-> TRUE, d |-> [k \in {"id"} |-> Strip(Head(ls).value)]],
                        closed)
        ELSE IF cur.open /\ IsFieldLine(variant, Head(ls))
        THEN ParseLines(variant, Tail(ls),
                        [cur EXCEPT !.d = Put(@, Head(ls).key, Strip(Head(ls).value))],
                        items)
        ELSE ParseLines(variant, Tail(ls), cur, items)

\* (it.get(k) or default).strip()
GetOr(it, k, default) ==
    IF k \in DOMAIN it /\ it[k] # <<>> THEN Strip(it[k]) ELSE default

NormalizedRecord(it) ==
    [id |-> GetOr(it, "id", <<>>),
     priority |-> GetOr(it, "priority", <<"P3">>),
     category |-> GetOr(it, "category", <<"quality">>),
     file |-> GetOr(it, "file", <<"<unknown>">>),
     line |-> GetOr(it, "line", <<"null">>),
     title |-> GetOr(it, "title", <<>>),
     description |-> GetOr(it, "description", <<>>),
     suggestion |-> GetOr(it, "suggestion", <<"(no suggestion provided)">>)]

\* a normalisation that keeps every item
NormalizeKeepAll(items) ==
    [i \in 1..Len(items) |-> NormalizedRecord(items[i])]

\* the loop over items: those without id are dropped
Normalize(items) ==
    LET HasId(it) == GetOr(it, "id", <<>>) # <<>>
        kept == SelectSeq(items, HasId)
    IN  [i \in 1..Len(kept) |-> NormalizedRecord(kept[i])]

ParseReviewFindings(variant, md) ==
    Normalize(ParseLines(variant, md, [open |-> FALSE, d |-> <<>>], <<>>))

\* the parser of codex/skills/pr-review-loop/scripts/pr_review_aggregate.py
ParseCodex ==
    /\ pc = "start"
    /\ parsed' = ParseReviewFindings("codex", md_text)
    /\ pc' = "parsed_codex"
    /\ UNCHANGED <<reviewVars, mainVars, outVars, harvestVars, textVars,
                   precheckVars, md_text>>
    /\ UNCHANGED frameOther

\* the parser of @opencode/agents/pr_review_aggregate.py
ParseOpencode ==
    /\ pc = "start"
    /\ parsed' = ParseReviewFindings("opencode", md_text)
    /\ pc' = "parsed_opencode"
    /\ UNCHANGED <<reviewVars, mainVars, outVars, harvestVars, textVars,
                   precheckVars, md_text>>
    /\ UNCHANGED frameOther

\* "- id: SEC-010", "- id:", "- id: " and the like, fields with and without
\* indentation and value, a block in the list form and the same block in the
\* flat form, a priority outside P0..P3, and a line of text
LineSample ==
    {Line(0, TRUE, "id", <<" ", "SEC-010">>),
     Line(0, TRUE, "id", <<>>),
     Line(0, TRUE, "id", <<" ">>),
     Line(0, FALSE, "id", <<" ", "CLD-007", " ">>),
     Line(0, FALSE, "id", <<>>),
     Line(2, FALSE, "id", <<" ", "GMN-004">>),
     Line(2, FALSE, "priority", <<" ", "P1">>),
     Line(0, FALSE, "priority", <<" ", "p0", " ">>),
     Line(2, FALSE, "priority", <<>>),
     Line(2, FALSE, "title", <<" ", "t">>),
     Line(2, FALSE, "priority", <<" ", "high">>),
     Line(0, FALSE, "id", <<" ", "SEC-010">>),
     Line(0, FALSE, "title", <<" ", "t">>),
     Line(0, FALSE, "", <<"text">>)}

InitParse ==
    /\ md_text \in BoundedSeq(LineSample, MaxLines)
    /\ parsed = <<>>
    /\ findings = <<>>
    /\ duplicate_groups = <<>>
    /\ prior_decisions = <<>>
    /\ escalation_groups = <<>>
    /\ merged_findings = <<>>
    /\ merged_map = EmptyMap
    /\ seen = {}
    /\ remerged_findings = <<>>
    /\ remerged_map = EmptyMap
    /\ filtered = <<>>
    /\ args = <<>>
    /\ comments = <<>>
    /\ comment_type = "none"
    /\ listing = "not_called"
    /\ duplicate = FALSE
    /\ posted = "pending"
    /\ post_calls = 0
    /\ must_fix = <<>>
    /\ optional = <<>>
    /\ runs = 1
    /\ stdout = <<>>
    /\ exit_code = "none"
    /\ cache_files = {}
    /\ owner_repo = "none"
    /\ all_threads = 0
    /\ NoText /\ NoPrecheck /\ NoLog /\ NoResolver /\ NoFix
    /\ pc = "start"

NextParse == ParseCodex \/ ParseOpencode

SpecParse == InitParse /\ [][NextParse]_vars

----------------------------------------------------------------------------
(* _parse_decision_log, one line of the text per step. The lines are those  *)
(* of the finding parser: indentation, "- ", the word before the first      *)
(* colon and what follows it; a header is a line without such a word.       *)

MaxLogLines == 4

\* frame of the decision-log parser
frameLog == <<reviewVars, mainVars, outVars, harvestVars, textVars, precheckVars,
              parseVars, fixVars, resolverVars>>

\* str.lower() on the headers of the sample
Lower(w) ==
    CASE w = "### Fixed" -> "### fixed"
      [] w = "### Rejected" -> "### rejected"
      [] OTHER -> w

\* the text of a trimmed value; the values of the sample hold one word at most
Word(v) == IF Strip(v) = <<>> THEN "" ELSE Strip(v)[1]

\* line.strip().lower() == "### fixed", and the same for "### rejected"
IsStatusHeader(l, status) ==
    l.key = "" /\ ~l.dash /\ Lower(Word(l.value)) = status

\* line.startswith("## Round ")
IsRoundHeader(l) ==
    l.key = "" /\ ~l.dash /\ l.indent = 0 /\ l.value # <<>> /\ l.value[1] = "## Round "

\* line.startswith("- id:")
IsLogIdLine(l) == l.key = "id" /\ l.dash /\ l.indent = 0

\* line.startswith("  ") and ^\s{2}([a-zA-Z][a-zA-Z0-9]*):\s*(.*)$
IsLogFieldLine(l) == l.key # "" /\ ~l.dash /\ l.indent = 2

\* line.split(":", 1): the line cut at its first colon, whole when it has none
SplitColon(l) == IF l.key = "" THEN <<l.value>> ELSE <<l.key, l.value>>

\* the line the loop is about to read
LogLine == log_text[log_pos + 1]

InLoop == pc = "log_loop" /\ log_pos < Len(log_text)

\* if current_entry: decisions.append(current_entry)
Closed == IF current_entry # None THEN Append(decisions, current_entry) ELSE decisions

\* if not md_text: return []
LogStart ==
    /\ pc = "start"
    /\ pc' = IF log_text = <<>> THEN "log_done" ELSE "log_loop"
    /\ UNCHANGED logVars
    /\ UNCHANGED frameLog

\* "### Fixed" or "### Rejected": the section changes, the record in progress
\* is closed
LogStatusHeader(status) ==
    /\ InLoop
    /\ status = IF IsStatusHeader(LogLine, "### fixed") THEN "fixed"
                ELSE IF IsStatusHeader(LogLine, "### rejected") THEN "rejected"
                ELSE "none"
    /\ current_status' = status
    /\ decisions' = Closed
    /\ current_entry' = None
    /\ log_pos' = log_pos + 1
    /\ UNCHANGED <<log_text, pc>>
    /\ UNCHANGED frameLog

IsHeaderLine(l) == IsStatusHeader(l, "### fixed") \/ IsStatusHeader(l, "### rejected")

\* a round header that also leaves the section
LogRoundHeaderLeavesSection ==
    /\ InLoop
    /\ ~IsHeaderLine(LogLine)
    /\ IsRoundHeader(LogLine)
    /\ decisions' = Closed
    /\ current_entry' = None
    /\ current_status' = "none"
    /\ log_pos' = log_pos + 1
    /\ UNCHANGED <<log_text, pc>>
    /\ UNCHANGED frameLog

\* "## Round N": the record in progress is closed, the section stays
LogRoundHeader ==
    /\ InLoop
    /\ ~IsHeaderLine(LogLine)
    /\ IsRoundHeader(LogLine)
    /\ decisions' = Closed
    /\ current_entry' = None
    /\ log_pos' = log_pos + 1
    /\ UNCHANGED <<log_text, current_status, pc>>
    /\ UNCHANGED frameLog

\* a record started by every line that begins with "- "
LogStartEntryAnyDash ==
    /\ InLoop
    /\ ~IsHeaderLine(LogLine) /\ ~IsRoundHeader(LogLine)
    /\ LogLine.dash /\ LogLine.indent = 0
    /\ current_status # "none"
    /\ LET parts == SplitColon(LogLine)
       IN  IF Len(parts) < 2
           THEN pc' = "log_raised" /\ UNCHANGED <<decisions, current_entry>>
           ELSE /\ decisions' = Closed
                /\ current_entry' = [id |-> Word(parts[2]), status |-> current_status]
                /\ pc' = pc
    /\ log_pos' = log_pos + 1
    /\ UNCHANGED <<log_text, current_status>>
    /\ UNCHANGED frameLog

\* "- id: X" inside a section: the record in progress is closed and a record
\* with the id and the status of the section is started. [1] of a split
\* without a second part raises IndexError
LogStartEntry ==
    /\ InLoop
    /\ ~IsHeaderLine(LogLine) /\ ~IsRoundHeader(LogLine)
    /\ IsLogIdLine(LogLine)
    /\ current_status # "none"
    /\ LET parts == SplitColon(LogLine)
       IN  IF Len(parts) < 2
           THEN pc' = "log_raised" /\ UNCHANGED <<decisions, current_entry>>
           ELSE /\ decisions' = Closed
                /\ current_entry' = [id |-> Word(parts[2]), status |-> current_status]
                /\ pc' = pc
    /\ log_pos' = log_pos + 1
    /\ UNCHANGED <<log_text, current_status>>
    /\ UNCHANGED frameLog

\* "  key: value" while a record is in progress: current_entry[k] = v
LogField ==
    /\ InLoop
    /\ ~IsHeaderLine(LogLine) /\ ~IsRoundHeader(LogLine)
    /\ ~(IsLogIdLine(LogLine) /\ current_status # "none")
    /\ current_entry # None
    /\ IsLogFieldLine(LogLine)
    /\ current_entry' = Put(current_entry, LogLine.key, Word(LogLine.value))
    /\ log_pos' = log_pos + 1
    /\ UNCHANGED <<log_text, current_status, decisions, pc>>
    /\ UNCHANGED frameLog

\* any other line is passed over
LogSkip ==
    /\ InLoop
    /\ ~IsHeaderLine(LogLine) /\ ~IsRoundHeader(LogLine)
    /\ ~(IsLogIdLine(LogLine) /\ current_status # "none")
    /\ ~(current_entry # None /\ IsLogFieldLine(LogLine))
    /\ log_pos' = log_pos + 1
    /\ UNCHANGED <<log_text, current_status, current_entry, decisions, pc>>
    /\ UNCHANGED frameLog

\* after the loop the record in progress is closed and decisions is returned
LogReturn ==
    /\ pc = "log_loop"
    /\ log_pos = Len(log_text)
    /\ decisions' = Closed
    /\ current_entry' = None
    /\ pc' = "log_done"
    /\ UNCHANGED <<log_text, log_pos, current_status>>
    /\ UNCHANGED frameLog

\* the two section headers (one with a blank after it), a round header, id
\* lines with and without a value, a field named status, another field, and
\* a list item that is no id line
LogLineSample ==
    {Line(0, FALSE, "", <<"### Fixed">>),
     Line(0, FALSE, "", <<"### Rejected", " ">>),
     Line(0, FALSE, "", <<"## Round ", "2">>),
     Line(0, TRUE, "id", <<" ", "CLD-007">>),
     Line(0, TRUE, "id", <<" ", "GMN-004", " ">>),
     Line(0, TRUE, "id", <<>>),
     Line(2, FALSE, "status", <<" ", "rejected">>),
     Line(2, FALSE, "essence", <<" ", "e">>),
     Line(0, TRUE, "", <<"note">>)}

InitLog ==
    /\ log_text \in BoundedSeq(LogLineSample, MaxLogLines)
    /\ log_pos = 0
    /\ current_status = "none"
    /\ current_entry = None
    /\ decisions = <<>>
    /\ findings = <<>>
    /\ prior_decisions = <<>>
    /\ escalation_groups = <<>>
    /\ NoMerge
    /\ filtered = <<>>
    /\ NoText /\ NoPrecheck /\ NoParse /\ NoResolver /\ NoFix /\ NoMain
    /\ pc = "start"

NextLog ==
    \/ LogStart
    \/ \E status \in {"fixed", "rejected"} : LogStatusHeader(status)
    \/ LogRoundHeader \/ LogStartEntry \/ LogField \/ LogSkip \/ LogReturn

SpecLog == InitLog /\ [][NextLog]_vars

----------------------------------------------------------------------------
(* The group resolvers: _parse_duplicate_groups_json and _b64,              *)
(* _parse_escalation_groups_json and _b64. A payload is the form of its     *)
(* text and, when the text or what it decodes to is JSON, the value it      *)
(* stands for; the base64 texts of the model are no JSON texts.            *)

MaxPayloadGroups == 2

frameResolver == <<reviewVars, mainVars, outVars, harvestVars, textVars,
                   precheckVars, parseVars, fixVars, logVars>>

\* JSON values
JNull == [t |-> "null"]

JNum == [t |-> "num"]

JStr(v) == [t |-> "str", s |-> v]

JArr(v) == [t |-> "arr", a |-> v]

\* an object with the one key k, with no key when k is "none"
JObj(k, v) == [t |-> "obj", k |-> k, o |-> v]

\* json.loads(s): the value, or an exception
JsonLoads(p) ==
    IF p.form = "json" THEN [ok |-> TRUE, data |-> p.data] ELSE [ok |-> FALSE]

\* base64.b64decode(s.encode("ascii"), validate=True) and raw.decode("utf-8",
\* errors="replace"): the text decoded, or an exception
B64Decode(p) ==
    IF p.form = "b64" THEN [ok |-> TRUE, text |-> [form |-> "json", data |-> p.data]]
    ELSE IF p.form = "b64_garbage" THEN [ok |-> TRUE, text |-> [form |-> "garbage"]]
    ELSE [ok |-> FALSE]

\* isinstance(data, dict) and isinstance(data.get(name), list)
HasNamedArray(data, name) ==
    data.t = "obj" /\ data.k = name /\ data.o.t = "arr"

\* the ids of one group: the strings that are not blank, trimmed, each once
GroupIds(g) ==
    LET strs == SelectSeq(g.a, LAMBDA it : it.t = "str" /\ Strip(it.s) # <<>>)
    IN  Dedupe([i \in 1..Len(strs) |-> Word(strs[i].s)])

\* the loop over groups: an element that is no array is skipped, a group
\* of fewer than two ids is dropped
GroupsOut(groups) ==
    LET lists == SelectSeq(groups, LAMBDA g : g.t = "arr")
        ids == [i \in 1..Len(lists) |-> GroupIds(lists[i])]
    IN  SelectSeq(ids, LAMBDA g : Len(g) >= 2)

Returned(v) == [raised |-> FALSE, value |-> v]

Raised == [raised |-> TRUE, value |-> <<>>]

\* the resolver without its try around json.loads
ParseGroupsJsonUncaught(name, p) ==
    IF p.form = "empty" THEN Returned(<<>>)
    ELSE LET r == JsonLoads(p)
         IN  IF ~r.ok THEN Raised
             ELSE IF HasNamedArray(r.data, name) THEN Returned(GroupsOut(r.data.o.a))
             ELSE IF r.data.t = "arr" THEN Returned(GroupsOut(r.data.a))
             ELSE Returned(<<>>)

\* _parse_duplicate_groups_json with name "duplicateGroups",
\* _parse_escalation_groups_json with name "escalationGroups"
ParseGroupsJson(name, p) ==
    IF p.form = "empty" THEN Returned(<<>>)
    ELSE LET r == JsonLoads(p)
         IN  IF ~r.ok THEN Returned(<<>>)
             ELSE IF HasNamedArray(r.data, name) THEN Returned(GroupsOut(r.data.o.a))
             ELSE IF r.data.t = "arr" THEN Returned(GroupsOut(r.data.a))
             ELSE Returned(<<>>)

\* _parse_duplicate_groups_b64, _parse_escalation_groups_b64: whatever is
\* raised inside, by the decoding or by the JSON resolver, gives []
ParseGroupsB64(name, p) ==
    IF p.form = "empty" THEN Returned(<<>>)
    ELSE LET d == B64Decode(p)
         IN  IF ~d.ok THEN Returned(<<>>)
             ELSE IF ParseGroupsJson(name, d.text).raised THEN Returned(<<>>)
             ELSE ParseGroupsJson(name, d.text)

ParseDuplicateGroupsJson ==
    /\ pc = "start"
    /\ resolved' = [called |-> "duplicate_json", name |-> "duplicateGroups",
                    out |-> ParseGroupsJson("duplicateGroups", payload)]
    /\ pc' = "resolved"
    /\ UNCHANGED payload
    /\ UNCHANGED frameResolver

ParseDuplicateGroupsB64 ==
    /\ pc = "start"
    /\ resolved' = [called |-> "duplicate_b64", name |-> "duplicateGroups",
                    out |-> ParseGroupsB64("duplicateGroups", payload)]
    /\ pc' = "resolved"
    /\ UNCHANGED payload
    /\ UNCHANGED frameResolver

ParseEscalationGroupsJson ==
    /\ pc = "start"
    /\ resolved' = [called |-> "escalation_json", name |-> "escalationGroups",
                    out |-> ParseGroupsJson("escalationGroups", payload)]
    /\ pc' = "resolved"
    /\ UNCHANGED payload
    /\ UNCHANGED frameResolver

ParseEscalationGroupsB64 ==
    /\ pc = "start"
    /\ resolved' = [called |-> "escalation_b64", name |-> "escalationGroups",
                    out |-> ParseGroupsB64("escalationGroups", payload)]
    /\ pc' = "resolved"
    /\ UNCHANGED payload
    /\ UNCHANGED frameResolver

\* what a payload lists as a group: two ids (one to trim), one id twice, ids
\* around a number, an id and a blank string; and a number in their place
GroupSample ==
    {JArr(<<JStr(<<"CLD-007">>), JStr(<<" ", "GMN-004">>)>>),
     JArr(<<JStr(<<"CLD-007">>), JStr(<<"CLD-007">>)>>),
     JArr(<<JStr(<<"SEC-010">>), JNum, JStr(<<"GMN-004">>)>>),
     JArr(<<JStr(<<"CLD-007">>), JStr(<<" ">>)>>),
     JNum}

ArraySample == {JArr(a) : a \in BoundedSeq(GroupSample, MaxPayloadGroups)}

\* values of every JSON type, arrays bare and under each of the two names,
\* and a name with a value that is no array
DataSample ==
    {JNull, JNum, JStr(<<"x">>), JObj("none", JNull),
     JObj("duplicateGroups", JStr(<<"x">>)), JObj("escalationGroups", JNull)}
        \cup ArraySample
        \cup {JObj(k, a) : k \in {"duplicateGroups", "escalationGroups"}, a \in ArraySample}

\* the empty text, JSON texts, base64 of JSON texts, base64 of something else
\* and texts that are neither
PayloadSample ==
    {[form |-> "empty"], [form |-> "garbage"], [form |-> "b64_garbage"]}
        \cup {[form |-> f, data |-> d] : f \in {"json", "b64"}, d \in DataSample}

InitResolver ==
    /\ payload \in PayloadSample
    /\ resolved = [called |-> "none"]
    /\ findings = <<>>
    /\ prior_decisions = <<>>
    /\ escalation_groups = <<>>
    /\ NoMerge
    /\ filtered = <<>>
    /\ NoText /\ NoPrecheck /\ NoParse /\ NoLog /\ NoFix /\ NoMain
    /\ pc = "start"

NextResolver ==
    \/ ParseDuplicateGroupsJson \/ ParseDuplicateGroupsB64
    \/ ParseEscalationGroupsJson \/ ParseEscalationGroupsB64

SpecResolver == InitResolver /\ [][NextResolver]_vars

----------------------------------------------------------------------------
(* Properties of the decision-log filter *)

FilterDone == pc \in {"filtered", "main_filtered"}

\* x is the id of a prior decision recorded with status st
DecidedAs(x, st) ==
    \E i \in 1..Len(prior_decisions) :
        prior_decisions[i].id = x /\ prior_decisions[i].status = st

\* x is listed after the first element of an escalation group that starts with p
SuccessorOf(x, p) ==
    \E j \in 1..Len(escalation_groups) :
        /\ escalation_groups[j][1] = p
        /\ \E k \in 2..Len(escalation_groups[j]) : escalation_groups[j][k] = x

LinkedTo(x, st) == \E p \in Ids : DecidedAs(p, st) /\ SuccessorOf(x, p)

FilteredIds == {filtered[i].id : i \in 1..Len(filtered)}

FindingIds == {findings[i].id : i \in 1..Len(findings)}

\* C1: with prior decisions, no finding whose id is the id of a fixed decision
\* is in the output, whatever the escalation groups say.
C1_FixedIdExcluded ==
    (FilterDone /\ prior_decisions # <<>>) =>
        \A x \in FilteredIds : ~DecidedAs(x, "fixed")

\* a fixed finding that a group also lists as the successor of a rejected id
C1_Witness ==
    /\ pc = "filtered"
    /\ \E x \in FindingIds : DecidedAs(x, "fixed") /\ LinkedTo(x, "rejected")

\* C2: a finding that is not itself fixed but is listed after the first element
\* of a group whose first element is a fixed id is filtered out.
C2_FixedSuccessorExcluded ==
    (FilterDone /\ prior_decisions # <<>>) =>
        \A x \in FindingIds :
            (~DecidedAs(x, "fixed") /\ LinkedTo(x, "fixed")) => x \notin FilteredIds

C2_Witness ==
    /\ pc = "filtered"
    /\ \E x \in FindingIds :
          /\ ~DecidedAs(x, "fixed") /\ ~DecidedAs(x, "rejected")
          /\ LinkedTo(x, "fixed") /\ ~LinkedTo(x, "rejected")
    /\ filtered # <<>>

\* C3: a finding that is neither fixed nor the successor of a fixed id, and whose
\* id is rejected, is retained exactly when it is also the successor of a
\* rejected id.
C3_RejectedUnlessEscalated ==
    (FilterDone /\ prior_decisions # <<>>) =>
        \A x \in FindingIds :
            (~DecidedAs(x, "fixed") /\ ~LinkedTo(x, "fixed") /\ DecidedAs(x, "rejected"))
                => (x \in FilteredIds <=> LinkedTo(x, "rejected"))

\* one rejected finding dropped and another rejected finding retained as the
\* successor of a rejected id
C3_Witness ==
    /\ pc = "filtered"
    /\ \E x, y \in FindingIds :
          /\ DecidedAs(x, "rejected") /\ DecidedAs(y, "rejected")
          /\ LinkedTo(x, "rejected") /\ x \in FilteredIds
          /\ ~LinkedTo(y, "rejected") /\ y \notin FilteredIds

\* the prior statuses linked to x conflict
Conflicting(x) ==
    \/ LinkedTo(x, "fixed") /\ LinkedTo(x, "rejected")
    \/ \E p \in Ids : DecidedAs(p, "fixed") /\ DecidedAs(p, "rejected") /\ SuccessorOf(x, p)

\* C4: a finding linked to prior decisions of conflicting status is filtered out.
C4_FixedHasPriority ==
    (FilterDone /\ prior_decisions # <<>>) =>
        \A x \in FindingIds : Conflicting(x) => x \notin FilteredIds

\* a successor of a fixed id in one group and of a rejected id in another
C4_Witness ==
    /\ pc = "filtered"
    /\ \E x \in FindingIds :
          /\ ~DecidedAs(x, "fixed")
          /\ \E p, q \in Ids :
                /\ p # q
                /\ DecidedAs(p, "fixed") /\ ~DecidedAs(p, "rejected") /\ SuccessorOf(x, p)
                /\ DecidedAs(q, "rejected") /\ ~DecidedAs(q, "fixed") /\ SuccessorOf(x, q)

\* the positions of the findings no rule covers
UncoveredAt ==
    {i \in 1..Len(findings) :
        /\ ~DecidedAs(findings[i].id, "fixed")
        /\ ~DecidedAs(findings[i].id, "rejected")
        /\ ~LinkedTo(findings[i].id, "fixed")}

RECURSIVE PickAt(_, _, _)
\* the elements of s at the positions of K that are >= i, in order
PickAt(s, K, i) ==
    IF i > Len(s) THEN <<>>
    ELSE IF i \in K THEN <<s[i]>> \o PickAt(s, K, i + 1)
    ELSE PickAt(s, K, i + 1)

\* C5: with prior decisions, the output is the input restricted to a set of
\* positions that holds every uncovered finding: records unchanged, order kept.
C5_UncoveredPassThrough ==
    (FilterDone /\ prior_decisions # <<>>) =>
        \E K \in SUBSET (1..Len(findings)) :
            /\ UncoveredAt \subseteq K
            /\ filtered = PickAt(findings, K, 1)

\* two uncovered findings around decisions that name the id of another finding
C5_Witness ==
    /\ pc = "filtered"
    /\ \E i \in 1..Len(prior_decisions) : prior_decisions[i].id \in Ids
    /\ \E i, j \in UncoveredAt : i < j /\ findings[i].id # findings[j].id
    /\ \E x \in FindingIds : LinkedTo(x, "rejected")

\* C6: without prior decisions the filtered findings are the input findings.
C6_IdentityWithoutDecisions ==
    (FilterDone /\ prior_decisions = <<>>) => filtered = findings

C6_Witness ==
    /\ pc = "main_filtered"
    /\ prior_decisions = <<>>
    /\ Len(findings) >= 2
    /\ \E x \in FindingIds : \E p \in Ids : SuccessorOf(x, p)

----------------------------------------------------------------------------
(* Properties of the duplicate merge *)

\* the finding that counts for id x: the last one given with that id
LastWith(x) ==
    findings[CHOOSE i \in 1..Len(findings) :
                findings[i].id = x /\ \A j \in 1..Len(findings) : findings[j].id = x => j <= i]

\* the members of the j-th duplicate group that are among the findings
GroupPresent(j) == Range(duplicate_groups[j]) \cap FindingIds

Actionable == {j \in 1..Len(duplicate_groups) : Cardinality(GroupPresent(j)) >= 2}

\* (priority rank, id) of a is smaller than that of b
Better(a, b) ==
    \/ PriorityRank(LastWith(a).priority) < PriorityRank(LastWith(b).priority)
    \/ /\ PriorityRank(LastWith(a).priority) = PriorityRank(LastWith(b).priority)
       /\ StrLess(a, b)

Best(P) == CHOOSE c \in P : \A o \in P \ {c} : Better(c, o)

\* C7: the canonical member of every duplicate group with at least two members
\* among the findings is the member with the smallest (priority rank, id): that
\* member is a key of merged_map, the other members are absorbed, and every key
\* of merged_map is such a member, mapped to the other members of its group.
C7_CanonicalIsSmallest ==
    (pc # "start") =>
        /\ \A j \in Actionable :
              /\ Best(GroupPresent(j)) \in DOMAIN merged_map
              /\ GroupPresent(j) \ {Best(GroupPresent(j))} \subseteq seen
        /\ \A k \in DOMAIN merged_map :
              \E j \in Actionable :
                  /\ k = Best(GroupPresent(j))
                  /\ Range(merged_map[k]) = GroupPresent(j) \ {k}

\* a group decided by priority against the order of the ids and of the group,
\* and a group of equal priorities decided by id
C7_Witness ==
    /\ pc = "merged"
    /\ \E j \in Actionable :
          LET b == Best(GroupPresent(j))
          IN  /\ \E o \in GroupPresent(j) : StrLess(o, b)
              /\ duplicate_groups[j][1] # b
    /\ \E j \in Actionable :
          /\ \A a, b \in GroupPresent(j) :
                PriorityRank(LastWith(a).priority) = PriorityRank(LastWith(b).priority)
          /\ duplicate_groups[j][1] # Best(GroupPresent(j))

\* f is the finding given for its id, but for a note after its description
SameButNote(f) ==
    LET g == LastWith(f.id)
    IN  /\ [f EXCEPT !.description = <<>>] = [g EXCEPT !.description = <<>>]
        /\ Len(f.description) >= Len(g.description)
        /\ SubSeq(f.description, 1, Len(g.description)) = g.description

\* C8: every absorbed id is listed in the note of the canonical finding of its
\* group in the output, and that finding is otherwise unchanged.
C8_AbsorbedIdsNoted ==
    (pc = "merged") =>
        \A j \in Actionable :
            \A m \in GroupPresent(j) \ {Best(GroupPresent(j))} :
                \E i \in 1..Len(merged_findings) :
                    /\ merged_findings[i].id = Best(GroupPresent(j))
                    /\ m \in Range(merged_findings[i].description)
                    /\ SameButNote(merged_findings[i])

\* C9: the merge returns at most as many findings as it was given, and no
\* returned finding has an absorbed id.
C9_MergedSetInvariant ==
    (pc # "start") =>
        /\ Len(merged_findings) <= Len(findings)
        /\ \A i \in 1..Len(merged_findings) : merged_findings[i].id \notin seen

\* a canonical finding of one group that another group absorbs
C9_Witness ==
    /\ pc = "merged"
    /\ \E k \in DOMAIN merged_map : k \in seen
    /\ merged_findings # <<>>
    /\ Len(merged_findings) < Len(findings)

\* C10: the merge applied to its own output, without groups or with the same
\* groups, returns that output: no second note.
C10_MergeIdempotent ==
    (pc \in {"remerged_no_groups", "remerged_same_groups"}) =>
        remerged_findings = merged_findings

\* the output holds a finding with a note and the same groups are given again
C10_Witness ==
    /\ pc = "remerged_same_groups"
    /\ \E i \in 1..Len(merged_findings) :
          /\ merged_findings[i].id \in DOMAIN merged_map
          /\ LastWith(merged_findings[i].id).description # <<>>
          /\ Len(merged_findings[i].description) > 1
    /\ Len(merged_findings) >= 2

\* a comes strictly before b in ascending (priority rank, id)
OutKeyLess(a, b) ==
    \/ PriorityRank(a.priority) < PriorityRank(b.priority)
    \/ /\ PriorityRank(a.priority) = PriorityRank(b.priority)
       /\ StrLess(a.id, b.id)

\* the positions of the findings given whose id is not absorbed
NotAbsorbedAt == {i \in 1..Len(findings) : findings[i].id \notin seen}

\* C11: the merge returns, for every id given that is not absorbed, the last
\* finding given with that id (a canonical one with its note) and nothing else,
\* in strictly ascending (priority rank, id), an order that the set of returned
\* findings fixes alone; with pairwise distinct ids that is exactly the
\* findings given minus the absorbed ones.
C11_OutputSortedLastPerId ==
    (pc # "start") =>
        /\ {merged_findings[i].id : i \in 1..Len(merged_findings)} = FindingIds \ seen
        /\ Len(merged_findings) = Cardinality(FindingIds \ seen)
        /\ \A i \in 1..Len(merged_findings) :
              /\ SameButNote(merged_findings[i])
              /\ merged_findings[i].id \notin DOMAIN merged_map
                    => merged_findings[i] = LastWith(merged_findings[i].id)
        /\ \A i, j \in 1..Len(merged_findings) :
              i < j => OutKeyLess(merged_findings[i], merged_findings[j])

\* findings of pairwise distinct ids given in descending order, one absorbed
C11_Witness ==
    /\ pc = "merged"
    /\ Len(findings) = 3
    /\ Cardinality(FindingIds) = 3
    /\ Len(merged_findings) = 2
    /\ \A i, j \in 1..Len(findings) :
          i < j => OutKeyLess(findings[j], findings[i])

\* C11 as stated: every finding given whose id is not absorbed is returned,
\* and as many findings are returned as were given with an id not absorbed.
C11_OutputIsInputMinusAbsorbed ==
    (pc # "start") =>
        /\ Len(merged_findings) = Cardinality(NotAbsorbedAt)
        /\ \A k \in NotAbsorbedAt :
              \E i \in 1..Len(merged_findings) :
                  [merged_findings[i] EXCEPT !.description = <<>>]
                      = [findings[k] EXCEPT !.description = <<>>]

----------------------------------------------------------------------------
(* Properties of the aggregate script *)

\* C12: in Mode A the findings left by merge and filter are split into the
\* mandatory tier (rank at most 1) and the optional tier (rank at least 2),
\* every finding in exactly one of them; a run that ends with status 0 emits
\* {"stop": true} exactly when the mandatory tier is empty and otherwise
\* {"stop": false, "fixFile": ...}, and the fix file is written only then.
C12_TiersAndResult ==
    /\ \A i \in 1..Len(must_fix) : PriorityRank(must_fix[i].priority) <= 1
    /\ \A i \in 1..Len(optional) : PriorityRank(optional[i].priority) >= 2
    /\ Len(must_fix) + Len(optional) = Len(filtered)
    /\ \A k \in 1..Len(filtered) :
          (\E i \in 1..Len(must_fix) : must_fix[i] = filtered[k])
              # (\E i \in 1..Len(optional) : optional[i] = filtered[k])
    /\ "fix" \in cache_files => must_fix # <<>>
    /\ (pc = "done" /\ exit_code = 0 /\ comment_type = "review-summary") =>
          /\ stdout = <<IF must_fix = <<>> THEN [stop |-> TRUE]
                        ELSE [stop |-> FALSE, fixFile |-> "fix"]>>
          /\ must_fix # <<>> => "fix" \in cache_files

\* a run that ends with a fix file, with a finding of each tier, one of them
\* of a priority that is none of P0..P3
C12_Witness ==
    /\ pc = "done"
    /\ exit_code = 0
    /\ "fix" \in cache_files
    /\ \E i \in 1..Len(must_fix) : PriorityRank(must_fix[i].priority) = 1
    /\ \E i \in 1..Len(optional) : PriorityRank(optional[i].priority) = 99
    /\ Len(filtered) < Len(findings)

\* C13 (across invocations): while a comment of this pull request, kind, round
\* and run id is among the comments and the listing does not fail, the post
\* command is not run.
C13_NoRepost ==
    (pc = "gh_comment" /\ listing # "failed") =>
        \A i \in 1..Len(comments) :
            comments[i] # Body(comment_type, args.round, args.run_id)

\* C14: _check_existing_comment returns true only when one comment has the
\* marker, the section header of the kind and round, and the line of exactly
\* this run id.
C14_ExistingOnlyOnExactMatch ==
    duplicate =>
        \E i \in 1..Len(comments) :
            /\ comments[i].marker
            /\ comments[i].header = TypeHeader(comment_type, args.round)
            /\ comments[i].run_id = args.run_id

\* C16: in Mode A the fix file is written only in a run whose comment was
\* posted or found already posted; a run whose post failed ends with the error
\* GH_PR_COMMENT_FAILED and a non-zero status, without fix file and without a
\* stop/fixFile result.
C16_FixFileAfterPost ==
    /\ ("fix" \in cache_files \/ pc = "fix_file") => posted = "ok"
    /\ (pc = "done" /\ posted = "failed") =>
          /\ stdout = <<[error |-> "GH_PR_COMMENT_FAILED"]>>
          /\ exit_code = 1
          /\ "fix" \notin cache_files

\* a Mode A run with a mandatory finding whose post failed
C16_Witness ==
    /\ pc = "done"
    /\ comment_type = "review-summary"
    /\ must_fix # <<>>
    /\ posted = "failed"
    /\ post_calls = 1

\* the command line is invalid, or names no fix-report file that exists in
\* Mode B, or no context file or review file that exists in Mode A
InputError ==
    \/ ~args.valid
    \/ /\ ~args.final_report
       /\ \/ args.fix_report_file = "missing"
          \/ /\ args.fix_report_file = "none"
             /\ \/ args.context_file # "present"
                \/ \A i \in 1..Len(args.review_files) : ~args.review_files[i]

ErrorCodes ==
    {"INVALID_ARGS", "FIX_REPORT_FILE_NOT_FOUND", "MISSING_CONTEXT_FILE",
     "MISSING_REVIEW_FILES", "CONTEXT_FILE_NOT_FOUND", "REVIEW_FILES_NOT_FOUND",
     "AGGREGATE_SCRIPT_FAILED"}

\* C17: on an input error the script writes no cache artifact and runs no post
\* command, and ends with one error object and a non-zero exit status.
C17_InputErrorsWriteNothing ==
    InputError =>
        /\ pc \in {"start", "done"}
        /\ cache_files = {}
        /\ post_calls = 0
        /\ pc = "done" =>
              /\ Len(stdout) = 1
              /\ stdout[1] \in [error : ErrorCodes]
              /\ exit_code \in {1, 2}

\* a second invocation in Mode A whose context file does not exist, on a pull
\* request with a comment, with a review file that exists
C17_Witness ==
    /\ pc = "done"
    /\ runs = 2
    /\ comments # <<>>
    /\ args.valid /\ ~args.final_report /\ args.fix_report_file = "none"
    /\ args.context_file = "missing"
    /\ \E i \in 1..Len(args.review_files) : args.review_files[i]
    /\ stdout = <<[error |-> "CONTEXT_FILE_NOT_FOUND"]>>

\* C15: every invocation of the review harvester that has ended has written
\* exactly one JSON object to stdout.
C15_OneJsonObject ==
    /\ Len(stdout) <= 1
    /\ pc = "done" => Len(stdout) = 1

\* C18: no comment body rendered, review summary or fix report, holds the
\* absolute path of the cache directory or of the repository root.
C18_NoAbsolutePathInBody ==
    (pc = "rendered") =>
        /\ ~Contains(body, CacheAbs)
        /\ ~Contains(body, RepoAbs)

----------------------------------------------------------------------------
(* Properties of pr_precheck.py *)

\* the command did not exit with 0, or its worker stored no exit code
Failed(name) == ~(results[name].set /\ results[name].rc = 0)

\* the workers were started and the result on stdout is a decision
Decided ==
    /\ pc = "done"
    /\ threads["lint"].state # "new"
    /\ Len(stdout) = 1
    /\ "ok" \in DOMAIN stdout[1]

\* C19: in every interleaving of the two workers the decision is taken and
\* emitted only when both have finished; it is ok:true exactly when both
\* commands exited with 0, and otherwise the fix file holds one issue for each
\* command that failed: P1 of category lint for lint, P0 of category build for
\* build.
C19_DecideAfterBothWorkers ==
    /\ (pc = "decide" \/ Decided) =>
          \A name \in Workers : threads[name].state = "finished"
    /\ Decided =>
          /\ stdout[1].ok = (~Failed("lint") /\ ~Failed("build"))
          /\ stdout[1].ok => (issues = <<>> /\ "fix" \notin cache_files)
          /\ ~stdout[1].ok =>
                /\ "fix" \in cache_files
                /\ Len(issues) = Cardinality({name \in Workers : Failed(name)})
                /\ \A name \in Workers :
                      Failed(name) <=>
                          \E i \in 1..Len(issues) :
                              /\ issues[i].category = name
                              /\ issues[i].priority = IF name = "lint" THEN "P1" ELSE "P0"

\* lint was not found and build failed: two issues, the build issue second
C19_Witness ==
    /\ Decided
    /\ results["lint"] = [set |-> TRUE, rc |-> 127]
    /\ results["build"] = [set |-> TRUE, rc |-> 1]
    /\ Len(issues) = 2
    /\ issues[2] = PrecheckIssue(2, "build")

----------------------------------------------------------------------------
(* Properties of _parse_review_findings *)

\* C20: no finding returned by _parse_review_findings, of either script, has
\* an id that is empty after trimming.
C20_NoEmptyId ==
    (pc \in {"parsed_codex", "parsed_opencode"}) =>
        \A i \in 1..Len(parsed) : Strip(parsed[i].id) # <<>>

\* a review with a finding whose id is blank, followed by a field, next to a
\* finding that is returned
C20_Witness ==
    /\ pc = "parsed_codex"
    /\ Len(md_text) = 3
    /\ md_text[1].key = "id" /\ md_text[1].value = <<" ">>
    /\ md_text[2].key = "priority"
    /\ md_text[3].key = "id"
    /\ Len(parsed) = 1

\* C21: every finding the parser returns has a priority among P0, P1, P2
\* and P3, a priority that is absent or not recognised being replaced by P3
C21_PriorityInEnum ==
    pc \in {"parsed_codex", "parsed_opencode"} =>
        \A i \in 1..Len(parsed) :
            parsed[i].priority \in {<<"P0">>, <<"P1">>, <<"P2">>, <<"P3">>}

\* C22: the four severity counts account for every finding: once the
\* findings are merged and filtered the counts of P0, P1, P2 and P3 add up to
\* the number of findings left, a finding whose priority is none of the four
\* being counted as P3
C22_CountsSumToFindings ==
    pc \notin {"start", "aggregate"} =>
        /\ counts.P0 + counts.P1 + counts.P2 + counts.P3 = Len(filtered)
        /\ counts.P3 = Cardinality({i \in 1..Len(filtered) :
                                       PriorityRank(filtered[i].priority) >= 3})

\* the line "- id: X" of the list form, the line "id: X" of the flat form
ListIdLine(l) == l.key = "id" /\ l.dash /\ l.indent = 0 /\ Strip(l.value) # <<>>

FlatIdLine(l) == l.key = "id" /\ ~l.dash /\ l.indent = 0 /\ Strip(l.value) # <<>>

\* the last line at or before i that opens a block, 0 when there is none
BlockStart(md, i) ==
    LET starts == {j \in 1..i : md[j].key = "id"}
    IN  IF starts = {} THEN 0 ELSE CHOOSE j \in starts : \A k \in starts : k <= j

\* md is made of blocks of the two forms and of nothing else: "- id:" with
\* its fields indented by two blanks, "id:" with its fields at the margin
WellFormedBlocks(md) ==
    /\ md # <<>>
    /\ \A i \in 1..Len(md) :
          \/ ListIdLine(md[i])
          \/ FlatIdLine(md[i])
          \/ /\ md[i].key \notin {"", "id"}
             /\ ~md[i].dash
             /\ BlockStart(md, i) # 0
             /\ md[i].indent = IF md[BlockStart(md, i)].dash THEN 2 ELSE 0

\* the same text with every block written in the flat form
Flat(md) == [i \in 1..Len(md) |-> [md[i] EXCEPT !.indent = 0, !.dash = FALSE]]

\* the same text with every block written in the list form
List(md) ==
    [i \in 1..Len(md) |->
        IF md[i].key = "id" THEN [md[i] EXCEPT !.indent = 0, !.dash = TRUE]
        ELSE [md[i] EXCEPT !.indent = 2, !.dash = FALSE]]

IdLinesOf(md) == SelectSeq(md, LAMBDA l : l.key = "id")

\* C23: the parser of the codex script reads the list form and the flat form
\* alike: a text made of blocks of the two forms parses to what the same text
\* parses to with every block in the flat form, and with every block in the
\* list form, and gives one finding per block in the order of the text
C23_FormsAgree ==
    (pc = "parsed_codex" /\ WellFormedBlocks(md_text)) =>
        /\ parsed = ParseReviewFindings("codex", Flat(md_text))
        /\ parsed = ParseReviewFindings("codex", List(md_text))
        /\ Len(parsed) = Len(IdLinesOf(md_text))
        /\ \A k \in 1..Len(parsed) :
              parsed[k].id = Strip(IdLinesOf(md_text)[k].value)

\* a list block with a title followed by a flat block
C23_Witness ==
    /\ pc = "parsed_codex"
    /\ WellFormedBlocks(md_text)
    /\ Len(md_text) = 3
    /\ ListIdLine(md_text[1])
    /\ md_text[2].key = "title"
    /\ FlatIdLine(md_text[3])
    /\ Len(parsed) = 2
    /\ parsed[1].title = <<"t">>

\* the lines of md that open a record with an id that is not empty
OpeningLines(md) ==
    SelectSeq([i \in 1..Len(md) |-> i],
              LAMBDA i : md[i].key = "id" /\ Strip(md[i].value) # <<>>)

\* the lines after the id line i and before the next id line that give key
FieldLinesOf(md, i, key) ==
    {j \in (i + 1)..Len(md) :
        /\ md[j].key = key /\ ~md[j].dash
        /\ \A m \in (i + 1)..j : md[m].key # "id"}

\* the value the block opened at line i gives to key: that of its last line
\* with this key, the default when it has none or an empty one
BlockField(md, i, key, default) ==
    LET js == FieldLinesOf(md, i, key)
        last == CHOOSE j \in js : \A m \in js : m <= j
    IN  IF js = {} \/ Strip(md[last].value) = <<>> THEN default
        ELSE Strip(md[last].value)

\* C29: a record dropped for its empty id takes its fields with it: every
\* finding returned by the parser of the codex script has the id of its own
\* opening line and the priority and title given between that line and the
\* next id line, whether the value of that next id line is empty or not
C29_FieldsFromOwnBlock ==
    pc = "parsed_codex" =>
        LET opening == OpeningLines(md_text)
        IN  /\ Len(parsed) = Len(opening)
            /\ \A k \in 1..Len(parsed) :
                  /\ parsed[k].id = Strip(md_text[opening[k]].value)
                  /\ parsed[k].priority =
                         BlockField(md_text, opening[k], "priority", <<"P3">>)
                  /\ parsed[k].title =
                         BlockField(md_text, opening[k], "title", <<>>)

InLog == pc \in {"log_loop", "log_done"}

\* the records closed so far and the record in progress
LogRecords == Closed

\* the section a line at position i stands in: that of the last "### Fixed" or
\* "### Rejected" before it, whatever round headers come in between
SectionAt(i) ==
    LET hs == {j \in 1..(i - 1) : IsHeaderLine(log_text[j])}
        last == CHOOSE j \in hs : \A k \in hs : k <= j
    IN  IF hs = {} THEN "none"
        ELSE IF IsStatusHeader(log_text[last], "### fixed") THEN "fixed"
        ELSE "rejected"

\* the "- id:" lines among the first n lines that stand in a section
ActiveIdLines(n) ==
    SelectSeq([i \in 1..n |-> i],
              LAMBDA i : IsLogIdLine(log_text[i]) /\ SectionAt(i) # "none")

\* C24: at every step of _parse_decision_log the records made so far are, in
\* the order of the text, one per "- id:" line read inside a status section:
\* an id line before the first "### Fixed" or "### Rejected" makes no record,
\* and a "## Round N" header closes the record in progress and leaves the
\* section as it was
C24_OneRecordPerActiveIdLine ==
    InLog =>
        LET ids == ActiveIdLines(log_pos)
        IN  /\ Len(LogRecords) = Len(ids)
            /\ \A k \in 1..Len(ids) : LogRecords[k].id = Word(log_text[ids[k]].value)
            /\ current_status = SectionAt(log_pos + 1)
            /\ (log_pos > 0 /\ IsRoundHeader(log_text[log_pos])) => current_entry = None
            /\ pc = "log_done" => current_entry = None

\* a section, a record, a round header and a second record
C24_Witness ==
    /\ pc = "log_done"
    /\ Len(log_text) = 4
    /\ IsStatusHeader(log_text[1], "### rejected")
    /\ IsLogIdLine(log_text[2])
    /\ IsRoundHeader(log_text[3])
    /\ IsLogIdLine(log_text[4])
    /\ Len(decisions) = 2
    /\ decisions[2].status = "rejected"

\* C25: every record of the decision log has the status fixed or rejected,
\* that of the section in which its "- id:" line stands, whatever indented
\* lines follow the id line
C25_StatusIsSection ==
    pc = "log_done" =>
        LET ids == ActiveIdLines(Len(log_text))
        IN  \A k \in 1..Len(decisions) :
                /\ decisions[k].status \in {"fixed", "rejected"}
                /\ k <= Len(ids) => decisions[k].status = SectionAt(ids[k])

\* C26: _parse_decision_log never raises, whatever the text: every line is
\* taken by one branch of the loop, the value returned is a list in which
\* every record has an id and a status, and it is empty for the empty text
C26_TotalWithIdAndStatus ==
    /\ pc # "log_raised"
    /\ InLog =>
          /\ \A k \in 1..Len(LogRecords) : {"id", "status"} \subseteq DOMAIN LogRecords[k]
          /\ (pc = "log_done" /\ log_text = <<>>) => decisions = <<>>
          /\ pc = "log_loop" => ENABLED NextLog

\* a text with a line that is no id line, and records without any field
\* besides id and status, one of them with an empty id
C26_Witness ==
    /\ pc = "log_done"
    /\ \E i \in 1..Len(log_text) : log_text[i].dash /\ log_text[i].key = ""
    /\ \E k \in 1..Len(decisions) : decisions[k].id = ""
    /\ \A k \in 1..Len(decisions) : DOMAIN decisions[k] = {"id", "status"}
    /\ Len(decisions) = 2

\* the payload is a JSON text, or the base64 of one, that the resolver
\* called reads: JSON for the JSON resolvers, base64 of JSON for the others
Readable ==
    /\ "data" \in DOMAIN payload
    /\ payload.form = IF resolved.called \in {"duplicate_json", "escalation_json"}
                      THEN "json" ELSE "b64"

\* the value is an object with the array named for the resolver, or an array
AcceptedShape ==
    Readable /\ (HasNamedArray(payload.data, resolved.name) \/ payload.data.t = "arr")

\* C27: the four group resolvers never raise, and return the empty list for
\* every payload that is no JSON (no base64 of JSON for the base64 ones) or
\* whose value is neither an object with the named array nor an array; what
\* they return otherwise is a list of groups of two distinct ids at least
C27_ResolversTotal ==
    pc = "resolved" =>
        /\ ~resolved.out.raised
        /\ ~AcceptedShape => resolved.out.value = <<>>
        /\ \A i \in 1..Len(resolved.out.value) :
              /\ IsGroup(resolved.out.value[i])
              /\ \A j \in 1..Len(resolved.out.value[i]) :
                    resolved.out.value[i][j] \in Ids

\* a JSON resolver given a text that is no JSON, which json.loads rejects
C27_Witness ==
    /\ pc = "resolved"
    /\ resolved.called = "escalation_json"
    /\ payload.form = "garbage"
    /\ resolved.out = Returned(<<>>)

\* the blocks of the fix file written for the id x
BlocksOf(x) == {i \in 1..Len(fix_file) : fix_file[i].id = x}

\* C28: in the fix file every finding left by merge and filter has one block
\* and no more, under IssuesToFix when its priority is P0 or P1 and under
\* OptionalIssues otherwise, there is no other block, and the id of every
\* block is an id of the findings given, unchanged
C28_FixFileBlocks ==
    "fix" \in cache_files =>
        /\ Len(fix_file) = Len(filtered)
        /\ \A k \in 1..Len(filtered) :
              /\ Cardinality(BlocksOf(filtered[k].id)) = 1
              /\ \A i \in BlocksOf(filtered[k].id) :
                    /\ fix_file[i].section =
                          IF Upper(filtered[k].priority) \in {"P0", "P1"}
                          THEN "IssuesToFix" ELSE "OptionalIssues"
                    /\ fix_file[i].priority = filtered[k].priority
        /\ \A i \in 1..Len(fix_file) : fix_file[i].id \in FindingIds

\* a fix file with a block in each section, one of them for a finding whose
\* priority is none of P0..P3, after a merge that absorbed a finding
C28_Witness ==
    /\ pc = "done"
    /\ "fix" \in cache_files
    /\ \E i \in 1..Len(fix_file) : fix_file[i].section = "IssuesToFix"
    /\ \E i \in 1..Len(fix_file) :
          fix_file[i].section = "OptionalIssues" /\ fix_file[i].priority = "high"
    /\ seen # {}

DistinctIds == \A i, j \in 1..Len(findings) : i # j => findings[i].id # findings[j].id

\* the smallest priority rank among the findings fs
LowestRank(fs) ==
    LET ranks == {PriorityRank(fs[i].priority) : i \in 1..Len(fs)}
    IN  CHOOSE r \in ranks : \A o \in ranks : r <= o

\* C30: the merge never lowers severity. When the ids given are pairwise
\* distinct, whatever the duplicate groups, every finding that is not
\* returned has an id that was absorbed and a returned finding of its rank or
\* of a smaller one, the smallest rank returned is the smallest rank given,
\* and findings with a P0 or P1 among them leave a P0 or P1 after the merge
C30_SeverityKept ==
    (pc = "merged" /\ DistinctIds) =>
        /\ \A i \in 1..Len(findings) :
              (\A k \in 1..Len(merged_findings) : merged_findings[k].id # findings[i].id)
                  => /\ findings[i].id \in seen
                     /\ \E k \in 1..Len(merged_findings) :
                           PriorityRank(merged_findings[k].priority)
                               <= PriorityRank(findings[i].priority)
        /\ \A k \in 1..Len(merged_findings) :
              \E i \in 1..Len(findings) :
                  /\ findings[i].id = merged_findings[k].id
                  /\ findings[i].priority = merged_findings[k].priority
        /\ findings # <<>> =>
              /\ merged_findings # <<>>
              /\ LowestRank(merged_findings) = LowestRank(findings)
        /\ (\E i \in 1..Len(findings) : PriorityRank(findings[i].priority) <= 1)
              => \E k \in 1..Len(merged_findings) :
                     PriorityRank(merged_findings[k].priority) <= 1

\* three findings of distinct ids, one of them P0, of which two are absorbed,
\* one of the absorbed being the canonical finding of another group
C30_Witness ==
    /\ pc = "merged"
    /\ DistinctIds
    /\ Len(findings) = 3
    /\ Len(merged_findings) = 1
    /\ \E k \in DOMAIN merged_map : k \in seen
    /\ \E i \in 1..Len(findings) : PriorityRank(findings[i].priority) = 99
    /\ PriorityRank(merged_findings[1].priority) = 0

====
